---- MODULE Spec2Model ----
(***************************************************************************)
(* failmail: SMTP ingest sessions, the storage writer, the message store,  *)
(* the summarizer (MessageBuffer) and the sender, as one state machine.    *)
(*                                                                         *)
(* Spec         the whole pipeline: sessions deliver whole messages, the   *)
(*              writer stores them, the summarizer flushes, the sender     *)
(*              answers.                                                   *)
(* SpecSession  one connection, command by command, with the writer and    *)
(*              the store behind it.                                       *)
(* SpecLife     the process from its start to the end of main: one         *)
(*              connection, the signals, Listen, the four Run loops        *)
(*              (SpecLifeFair: with the scheduling of the goroutines).     *)
(* SpecStore    a message store of either kind on its own.                 *)
(* SpecRestart  the disk store over restarts of the process.                *)
(* SpecUpstream a MultiUpstream over every list of upstreams.               *)
(* SpecSummary  Compact and Summarize over every list of stored messages.   *)
(* SpecRate     a RateCounter under Add and CheckAndAdvance.                *)
(* SpecDisk     a DiskStore file-system step by file-system step, with     *)
(*              crashes.                                                   *)
(* SpecMem      a MemoryStore shared by the writer and the summarizer,     *)
(*              step by step.                                              *)
(***************************************************************************)
EXTENDS Integers, Sequences, FiniteSets, TLC

\* ------------------------------------------------------------------ bounds
MaxTime == 1          \* the clock runs over 0..MaxTime
MaxConns == 2         \* at most this many connections are accepted (Listener.conns)
MaxSessionConns == 1  \* connections accepted when one session is followed command by command
MaxRcpt == 2          \* at most this many RCPT commands are sent per envelope
MaxStored == 4        \* at most this many messages are added to a store on its own
MaxRestarts == 1      \* at most this many restarts of the process over one maildir
MaxUpstreams == 3     \* at most this many upstreams in a MultiUpstream
MaxSummary == 3       \* at most this many stored messages in one summary
MaxWindow == 2        \* a RateCounter has at most this many intervals
MaxAdds == 2          \* at most this many Adds between two CheckAndAdvances
MaxChecks == 3        \* at most this many CheckAndAdvances of one RateCounter
MaxFiles == 2         \* at most this many Adds to a maildir in one run of the process
MaxCrashes == 1       \* at most this many crashes of a process over one maildir

\* ---------------------------------------------------- configuration values
SoftLimit == 1        \* MessageBuffer.SoftLimit (WaitPeriod), in clock units
HardLimit == 2        \* MessageBuffer.HardLimit (MaxWait), in clock units
ReceivedCap == 64     \* capacity of the received channel
OutgoingCap == 64     \* capacity of the outgoing channel

Sessions == {1, 2}                   \* connection slots
Addrs == {"a", "B"}                  \* wire addresses a client may name
RcptLists == {<<"a">>, <<"a", "B">>}  \* the recipient lists of whole deliveries
GoodPayloads == {"p0", "px"}         \* parseable payloads: without and with the batch header
Payloads == GoodPayloads \cup {"bad"} \* "bad": a payload mail.ReadMessage rejects

NoId == -1
ZeroTime == -1                       \* time.Time{}: before every clock value

\* SessionSecurity
UNENCRYPTED == "UNENCRYPTED"
TLS_PRE_STARTTLS == "TLS_PRE_STARTTLS"
TLS_POST_STARTTLS == "TLS_POST_STARTTLS"
SSL == "SSL"
Securities == {UNENCRYPTED, TLS_PRE_STARTTLS, TLS_POST_STARTTLS, SSL}

\* AuthState
NOT_PERMITTED == "NOT_PERMITTED"
REQUIRED == "REQUIRED"
AUTHENTICATED == "AUTHENTICATED"

\* Listener.Auth: nil, or a SingleUserPlainAuth with allowUnencryptedAuth set or not
AuthNil == "nil"
AuthAllowUnencrypted == "allowUnencrypted"
AuthRequireEncrypted == "requireEncrypted"
Auths == {AuthNil, AuthAllowUnencrypted, AuthRequireEncrypted}

VARIABLES
  auth,       \* Listener.Auth
  security,   \* the SessionSecurity the listener starts its sessions with
  storeKind,  \* "memory" or "disk": which MessageStore the process was configured with
  clock,      \* nowGetter()
  sess,       \* per connection slot: the Session and the position of handleConnection
  observe,    \* whether the client side of the connections is being recorded in out
  out,        \* the last step of a connection handler: command, reply returned, reply written
  received,   \* the received channel: StorageRequests in flight
  writer,     \* MessageWriter.Run: the request it holds and the time it stamped
  messages,   \* MemoryStore.messages (heap array) or the disk store's .meta listing
  counter,    \* MemoryStore.counter / Maildir.messageCounter
  lastFlush,  \* MessageBuffer.lastFlush
  batches,    \* MessageBuffer.batches: key -> [first, last, messages]
  fl,         \* MessageBuffer.Flush: position and locals
  outgoing,   \* the outgoing channel: SendRequests in flight
  conns,      \* Listener.conns: connections accepted so far
  crashed,    \* an unrecovered panic ended the process
  hist,       \* history: the ids acknowledged with 250, added to the store, sent in a summary,
              \* answered with nil by the sender, the calls of Store.Remove by Flush, and
              \* how often a poll of Flush has returned a message
  life,       \* main and its goroutines: signals, Listen, the accept loop, the Run loops
  sent,       \* the last turn of Sender.Run: the send, the failed-maildir, the reply
  multi,      \* MultiUpstream.Send: its upstreams, its position, the calls made
  summ,       \* Summarize: the stored messages it was given, the summary it built
  rate,       \* a RateCounter, with the history of its calls
  disk,       \* the maildir of a DiskStore and the file-system steps of its operations
  mem         \* a MemoryStore and the steps of its operations in two goroutines

vars == <<mem, disk, rate, summ, multi, life, sent, auth, security, storeKind, clock, sess, observe, out, received, writer, messages,
          counter, lastFlush, batches, fl, outgoing, conns, crashed, hist>>

\* the process runs: no goroutine has panicked and main has not returned
Alive == ~crashed /\ life.mpc \notin {"exec", "exit"}

\* ------------------------------------------------------------ small helpers
Range(f) == {f[i] : i \in DOMAIN f}

SetMin(S) == CHOOSE x \in S : \A y \in S : x <= y

SetMax(S) == CHOOSE x \in S : \A y \in S : x >= y

Swap(q, i, j) == [q EXCEPT ![i] = q[j], ![j] = q[i]]

RemoveAt(q, i) == SubSeq(q, 1, i - 1) \o SubSeq(q, i + 1, Len(q))

\* ------------------------------------------------- MemoryStore (a binary heap)
\* TimeOrdered.Less on two elements: newest first, ties count as less
Less(x, y) == x.Received >= y.Received

\* container/heap up(j), with 1-based positions
RECURSIVE heapUp(_, _)
heapUp(q, j) ==
  IF j = 1 THEN q
  ELSE LET p == j \div 2 IN
       IF ~Less(q[j], q[p]) THEN q ELSE heapUp(Swap(q, j, p), p)

\* container/heap down(i, n) over the first n elements; yields the array and
\* the position the element ended at
RECURSIVE heapDown(_, _, _)
heapDown(q, i, n) ==
  LET j1 == 2 * i IN
  IF j1 > n THEN [q |-> q, i |-> i]
  ELSE LET j == IF j1 + 1 <= n /\ Less(q[j1 + 1], q[j1]) THEN j1 + 1 ELSE j1 IN
       IF ~Less(q[j], q[i]) THEN [q |-> q, i |-> i]
       ELSE heapDown(Swap(q, i, j), j, n)

heapPush(q, x) == heapUp(Append(q, x), Len(q) + 1)

heapRemove(q, i) ==
  LET n == Len(q) IN
  IF i = n THEN SubSeq(q, 1, n - 1)
  ELSE LET d == heapDown(Swap(q, i, n), i, n - 1)
           moved == d.i > i
           q2 == IF moved THEN d.q ELSE heapUp(d.q, i)
       IN SubSeq(q2, 1, n - 1)

\* sort.Search(len(q), func(k) { t >= q[k].Received }): binary search between
\* the 0-based positions i and j
RECURSIVE Search(_, _, _, _)
Search(q, t, i, j) ==
  IF i < j
  THEN LET h == (i + j) \div 2 IN
       IF ~(t >= q[h + 1].Received) THEN Search(q, t, h + 1, j) ELSE Search(q, t, i, h)
  ELSE i

MemoryAdd(q, id, now, msg) ==
  heapPush(q, [Id |-> id, Received |-> now, To |-> msg.To, Data |-> msg.Data])

\* a Remove that takes the newest message when it does not find the id
MemoryRemoveOrFirst(q, id) ==
  IF \E i \in 1..Len(q) : q[i].Id = id
  THEN heapRemove(q, SetMin({i \in 1..Len(q) : q[i].Id = id}))
  ELSE IF q = <<>> THEN q ELSE heapRemove(q, 1)

MemoryRemove(q, id) ==
  IF \E i \in 1..Len(q) : q[i].Id = id
  THEN heapRemove(q, SetMin({i \in 1..Len(q) : q[i].Id = id}))
  ELSE q

MemoryMessagesNewerThan(q, t) == SubSeq(q, 1, Search(q, t, 0, Len(q)))

\* ----------------------------------------------------------------- DiskStore
\* the .meta directory listing, in file-name order (the order of the adds)
DiskAdd(q, id, mtime, msg) ==
  LET m == [Id |-> id, Received |-> mtime, To |-> msg.To, Data |-> msg.Data] IN
  IF \E i \in 1..Len(q) : q[i].Id = id
  THEN [i \in 1..Len(q) |-> IF q[i].Id = id THEN m ELSE q[i]]
  ELSE SelectSeq(q, LAMBDA x : x.Id < id) \o <<m>> \o SelectSeq(q, LAMBDA x : x.Id > id)

DiskRemove(q, id) ==
  IF \E i \in 1..Len(q) : q[i].Id = id
  THEN RemoveAt(q, CHOOSE i \in 1..Len(q) : q[i].Id = id)
  ELSE q

DiskMessagesNewerThan(q, t) == SelectSeq(q, LAMBDA m : ~(m.Received < t))

\* ------------------------------------------------------ the configured store
StoreRemove(kind, q, id) ==
  IF kind = "memory" THEN MemoryRemove(q, id) ELSE DiskRemove(q, id)

MessagesNewerThan(kind, q, t) ==
  IF kind = "memory" THEN MemoryMessagesNewerThan(q, t) ELSE DiskMessagesNewerThan(q, t)

StoreIds == {messages[i].Id : i \in 1..Len(messages)}

\* the outcomes Store.Add can have: the memory store never fails; the disk
\* store can fail before anything is visible (Maildir.Write, WriteFile of the
\* metadata) or after the metadata file exists (Chtimes)
AddOutcomes(kind) ==
  IF kind = "memory" THEN {"ok"} ELSE {"ok", "errWrite", "errChtimes"}

\* ------------------------------------------------------------------- Session
\* s.Received: nil is TRUE when the embedded *message is nil, as it is in the
\* ReceivedMessage that setData leaves behind
FreshReceived == [nil |-> FALSE, From |-> "", To |-> <<>>, Data |-> ""]
NilReceived == [nil |-> TRUE, From |-> "", To |-> <<>>, Data |-> ""]
NoMsg == [nil |-> TRUE, From |-> "", To |-> <<>>, Data |-> ""]

Resp(code, text) == [Code |-> code, Text |-> text]

IsClose(r) == r.Code = 221
NeedsAuthResponse(r) == r.Code = 334
NeedsData(r) == r.Code = 354
StartsTLS(r) == r.Text = "Ready to switch to TLS"

IsEncrypted(sec) == sec = TLS_POST_STARTTLS \/ sec = SSL
AllowStarttls(sec) == sec = TLS_PRE_STARTTLS

\* a policy that permits authentication on any connection
IsPermittedAnywhere(a, sec) == TRUE

\* SingleUserPlainAuth.IsPermitted
IsPermitted(a, sec) == IsEncrypted(sec) \/ a = AuthAllowUnencrypted

\* the result of a Session method: the reply, the session afterwards, the
\* message it yielded (NoMsg for none) and whether it panicked on the nil
\* embedded message
Result(r, s, m) == [resp |-> r, s |-> s, msg |-> m, panic |-> FALSE]
Panic(s) == [resp |-> Resp(0, "panic"), s |-> s, msg |-> NoMsg, panic |-> TRUE]

\* Session.Start
Start(a, sec) ==
  [Received |-> FreshReceived,
   authState |-> IF a = AuthNil THEN NOT_PERMITTED ELSE REQUIRED,
   security |-> sec]

\* a MAIL that sets the sender whatever the envelope holds
setFromUnchecked(s, from) ==
  IF s.Received.nil THEN Panic(s)
  ELSE Result(Resp(250, "OK"), [s EXCEPT !.Received.From = from], NoMsg)

setFrom(s, from) ==
  IF s.Received.nil THEN Panic(s)
  ELSE IF s.Received.From # "" \/ Len(s.Received.To) > 0 \/ s.Received.Data # ""
  THEN Result(Resp(503, "Command out of sequence"), s, NoMsg)
  ELSE Result(Resp(250, "OK"), [s EXCEPT !.Received.From = from], NoMsg)

addTo(s, to) ==
  IF s.Received.nil THEN Panic(s)
  ELSE IF s.Received.From = "" \/ s.Received.Data # ""
  THEN Result(Resp(503, "Command out of sequence"), s, NoMsg)
  ELSE Result(Resp(250, "OK"), [s EXCEPT !.Received.To = Append(@, to)], NoMsg)

\* a setData that starts a new envelope when the payload does not parse
setDataDiscarding(s, data) ==
  IF s.Received.nil THEN Panic(s)
  ELSE IF s.Received.From = "" \/ Len(s.Received.To) = 0 \/ s.Received.Data # ""
  THEN Result(Resp(503, "Command out of sequence"), s, NoMsg)
  ELSE IF data = "bad"
  THEN Result(Resp(451, "Failed to parse data"), [s EXCEPT !.Received = FreshReceived], NoMsg)
  ELSE Result(Resp(250, "Got the data"),
              [s EXCEPT !.Received = NilReceived],
              [s.Received EXCEPT !.Data = data])

\* a setData that does not look at the envelope
setDataUnchecked(s, data) ==
  IF s.Received.nil THEN Panic(s)
  ELSE IF data = "bad"
  THEN Result(Resp(451, "Failed to parse data"), s, NoMsg)
  ELSE Result(Resp(250, "Got the data"),
              [s EXCEPT !.Received = NilReceived],
              [s.Received EXCEPT !.Data = data])

\* mail.ReadMessage fails on the payload "bad"
setData(s, data) ==
  IF s.Received.nil THEN Panic(s)
  ELSE IF s.Received.From = "" \/ Len(s.Received.To) = 0 \/ s.Received.Data # ""
  THEN Result(Resp(503, "Command out of sequence"), s, NoMsg)
  ELSE IF data = "bad"
  THEN Result(Resp(451, "Failed to parse data"), s, NoMsg)
  ELSE Result(Resp(250, "Got the data"),
              [s EXCEPT !.Received = NilReceived],
              [s.Received EXCEPT !.Data = data])

\* the commands the SMTP parser accepts; "BADLINE" is a line it rejects
Commands == {"QUIT", "HELO", "EHLO", "RSET", "NOOP", "AUTH", "STARTTLS",
             "MAIL", "RCPT", "DATA", "VRFY"}
NoAuthCommands == {"QUIT", "HELO", "EHLO", "RSET", "NOOP", "AUTH", "STARTTLS"}

\* AUTH arguments: the type, and what the payload turns out to be
AuthTypes == {"PLAIN", "LOGIN"}
AuthPayloads == {"", "undecodable", "malformed", "wrong", "good"}

\* a gate that guards DATA alone
authRequiredForData(s, cmd) == cmd = "DATA" /\ s.authState = REQUIRED

authRequired(s, cmd) ==
  IF cmd \in NoAuthCommands THEN FALSE ELSE s.authState = REQUIRED

\* credentials that are accepted whenever they decode into a well-formed token
checkCredentialsAnyToken(s, payload) ==
  IF payload = "undecodable"
  THEN Result(Resp(501, "Error decoding credentials"), s, NoMsg)
  ELSE IF payload \in {"malformed", ""}
  THEN Result(Resp(501, "Error validating credentials"), s, NoMsg)
  ELSE Result(Resp(235, "Authentication successful"),
              [s EXCEPT !.authState = AUTHENTICATED], NoMsg)

\* base64 decoding and SingleUserPlainAuth.ValidCredentials on the payload
checkCredentials(s, payload) ==
  IF payload = "undecodable"
  THEN Result(Resp(501, "Error decoding credentials"), s, NoMsg)
  ELSE IF payload \in {"malformed", ""}
  THEN Result(Resp(501, "Error validating credentials"), s, NoMsg)
  ELSE IF payload # "good"
  THEN Result(Resp(535, "Authentication failed"), s, NoMsg)
  ELSE Result(Resp(235, "Authentication successful"),
              [s EXCEPT !.authState = AUTHENTICATED], NoMsg)

authenticate(s, method, payload) ==
  IF method # "PLAIN"
  THEN Result(Resp(504, "Unrecognized authentication type"), s, NoMsg)
  ELSE IF payload = ""
  THEN Result(Resp(334, ""), s, NoMsg)
  ELSE checkCredentials(s, payload)

\* Session.Advance on a parsed command; arg is the path of MAIL and RCPT and
\* the <<type, payload>> of AUTH
Advance(a, s, cmd, arg) ==
  IF cmd = "BADLINE" THEN Result(Resp(500, "Parse error"), s, NoMsg)
  ELSE IF authRequired(s, cmd)
  THEN Result(Resp(530, "Authentication required"), s, NoMsg)
  ELSE CASE cmd = "QUIT" -> Result(Resp(221, "See ya"), s, NoMsg)
         [] cmd = "HELO" -> Result(Resp(250, "Hello"), s, NoMsg)
         [] cmd = "EHLO" ->
              Result(Resp(250, IF AllowStarttls(s.security)
                               THEN "Hello AUTH PLAIN STARTTLS"
                               ELSE "Hello AUTH PLAIN"), s, NoMsg)
         [] cmd = "NOOP" -> Result(Resp(250, "Noop"), s, NoMsg)
         [] cmd = "RCPT" -> addTo(s, arg)
         [] cmd = "MAIL" -> setFrom(s, arg)
         [] cmd = "VRFY" -> Result(Resp(252, "Maybe"), s, NoMsg)
         [] cmd = "DATA" -> Result(Resp(354, "Go"), s, NoMsg)
         [] cmd = "AUTH" ->
              IF s.authState = REQUIRED /\ ~IsPermitted(a, s.security)
              THEN Result(Resp(502, "An encrypted connection is required for authentication"), s, NoMsg)
              ELSE IF s.authState = AUTHENTICATED
              THEN Result(Resp(503, "Already authenticated"), s, NoMsg)
              ELSE IF s.authState = NOT_PERMITTED
              THEN Result(Resp(502, "Authentication is not supported"), s, NoMsg)
              ELSE authenticate(s, arg[1], arg[2])
         [] cmd = "STARTTLS" ->
              IF s.security = TLS_POST_STARTTLS
              THEN Result(Resp(500, "Already using TLS"), s, NoMsg)
              ELSE IF ~AllowStarttls(s.security)
              THEN Result(Resp(500, "STARTTLS not supported"), s, NoMsg)
              ELSE Result(Resp(220, "Ready to switch to TLS"), s, NoMsg)
         [] OTHER -> Result(Resp(502, "Not implemented"), s, NoMsg)

\* Session.ReadData: a read error before the final "." yields 451
ReadData(s, data) ==
  IF data = "readerr"
  THEN Result(Resp(451, "Failed to read data"), s, NoMsg)
  ELSE setData(s, data)

\* Session.ReadAuthResponse
ReadAuthResponse(s, payload) ==
  IF payload = "readerr"
  THEN Result(Resp(500, "Parse error"), s, NoMsg)
  ELSE checkCredentials(s, payload)

\* ------------------------------------------------------------- MessageBuffer
\* the batch expression {{.Header.Get "X-Failmail-Split"}} on a stored message
Batch(m) == IF m.Data = "px" THEN "x" ELSE ""

\* mail.ParseAddress and strings.ToLower
NormalizeAddress(email) == IF email = "B" THEN "b" ELSE email

RecipientKey(key, recipient) == [Key |-> key, Recipient |-> recipient]

NewBatches == [k \in {} |-> [first |-> 0, last |-> 0, messages |-> <<>>]]

\* batches.Add
batchesAdd(b, key, sm) ==
  IF key \notin DOMAIN b
  THEN [k \in DOMAIN b \cup {key} |->
          IF k = key
          THEN [first |-> sm.Received, last |-> sm.Received, messages |-> <<sm>>]
          ELSE b[k]]
  ELSE [b EXCEPT ![key].last = sm.Received, ![key].messages = Append(@, sm)]

\* batches.Remove
batchesRemove(b, key) == [k \in DOMAIN b \ {key} |-> b[k]]

\* the inner loop of Flush: one Add per recipient of a stored message
RECURSIVE AddRecipients(_, _, _)
AddRecipients(b, sm, n) ==
  IF n > Len(sm.To) THEN b
  ELSE AddRecipients(batchesAdd(b, RecipientKey(Batch(sm), NormalizeAddress(sm.To[n])), sm),
                     sm, n + 1)

\* the outer loop of Flush over the polled messages, in the order the store gave
RECURSIVE AddStored(_, _)
AddStored(b, stored) ==
  IF stored = <<>> THEN b
  ELSE AddStored(AddRecipients(b, Head(stored), 1), Tail(stored))

NeedsFlush(b, now, key) ==
  ~(now - b[key].first < HardLimit /\ now - b[key].last < SoftLimit)

IdsOf(msgs) == {msgs[i].Id : i \in 1..Len(msgs)}

\* a Flush that marks the messages of a summary for removal whatever the
\* sender answered
AfterSendRemoveAlways(toRemove, msgs, err) == toRemove \cup IdsOf(msgs)

\* what Flush does with the ids of a summary once the sender has answered
AfterSendRemove(toRemove, msgs, err) ==
  IF err THEN toRemove ELSE toRemove \cup IdsOf(msgs)

AfterSendKeep(toKeep, msgs, err) ==
  IF err THEN toKeep \cup IdsOf(msgs) ELSE toKeep

AfterSendBatches(b, key, err) ==
  IF err THEN b ELSE batchesRemove(b, key)

\* -------------------------------------------------- Listener.handleConnection
\* tls: the handler has wrapped the connection in tls.Server
ClosedSlot ==
  [pc |-> "closed", s |-> Start(AuthNil, UNENCRYPTED), resp |-> Resp(0, ""),
   err |-> "none", id |-> NoId, tls |-> FALSE]

NoEvent == [sess |-> 0, cmd |-> "", type |-> "", arg |-> "", ret |-> 0, code |-> 0]

\* the record of a handler step: what it read (the path of a MAIL or RCPT, the
\* payload of a body, the type and payload of an AUTH and the line read after
\* 334 in type and arg), the reply the Session returned (ret) and the reply
\* written to the client (code, 0 when nothing is written)
Event(i, cmd, arg, ret, code) ==
  IF observe
  THEN [sess |-> i, cmd |-> cmd,
        type |-> IF cmd = "AUTH" THEN arg[1] ELSE "",
        arg |-> IF cmd = "AUTH" THEN arg[2]
                ELSE IF cmd \in {"MAIL", "RCPT", "BODY", "AUTHRESP"} THEN arg ELSE "",
        ret |-> ret, code |-> code]
  ELSE out

\* where the handler goes after it has written the reply to a command
AfterCommand(r) ==
  IF IsClose(r) THEN "closed"
  ELSE IF NeedsData(r) THEN "data"
  ELSE IF NeedsAuthResponse(r) THEN "auth"
  ELSE "cmd"

\* Accept, then Session.Start and the greeting
Accept(i, limit) ==
  /\ Alive
  /\ life.apc = "accepting" /\ life.sock = "open"
  /\ sess[i].pc = "closed"
  /\ conns < limit
  /\ conns' = conns + 1
  /\ sess' = [sess EXCEPT ![i] = [ClosedSlot EXCEPT !.pc = "cmd", !.s = Start(auth, security)]]
  /\ out' = Event(i, "CONNECT", "", 220, 220)
  /\ UNCHANGED <<mem, disk, rate, summ, multi, life, sent, auth, security, storeKind, clock, observe, received, writer, messages,
                 counter, lastFlush, batches, fl, outgoing, crashed, hist>>

\* ReadCommand returned an error: the handler leaves its loop and closes
Disconnect(i) ==
  /\ Alive
  /\ sess[i].pc = "cmd"
  /\ sess' = [sess EXCEPT ![i] = ClosedSlot]
  /\ out' = Event(i, "EOF", "", 0, 0)
  /\ UNCHANGED <<mem, disk, rate, summ, multi, life, sent, auth, security, storeKind, clock, observe, received, writer, messages,
                 counter, lastFlush, batches, fl, outgoing, conns, crashed, hist>>

\* one turn of the loop: ReadCommand, the reply, and the switch on the reply
Command(i, cmd, arg) ==
  /\ Alive
  /\ sess[i].pc = "cmd"
  /\ LET r == Advance(auth, sess[i].s, cmd, arg) IN
       IF r.panic
       THEN /\ crashed' = TRUE
            /\ out' = Event(i, cmd, arg, 0, 0)
            /\ UNCHANGED sess
       ELSE /\ sess' = [sess EXCEPT ![i] =
                          IF IsClose(r.resp) THEN ClosedSlot
                          ELSE [@ EXCEPT !.pc = AfterCommand(r.resp), !.s = r.s,
                                         !.resp = r.resp,
                                         !.tls = @ \/ StartsTLS(r.resp)]]
            /\ out' = Event(i, cmd, arg, r.resp.Code, r.resp.Code)
            /\ UNCHANGED crashed
  /\ UNCHANGED <<mem, disk, rate, summ, multi, life, sent, auth, security, storeKind, clock, observe, received, writer, messages,
                 counter, lastFlush, batches, fl, outgoing, conns, hist>>

\* the NeedsData branch: ReadData, and the StorageRequest when a message came
\* out of it; without a message nothing is written to the client. A send on
\* the received channel after Listen has closed it panics
Body(i, data) ==
  /\ Alive
  /\ sess[i].pc = "data"
  /\ LET r == ReadData(sess[i].s, data) IN
       IF r.panic
       THEN /\ crashed' = TRUE
            /\ out' = Event(i, "BODY", data, 0, 0)
            /\ UNCHANGED <<sess, received>>
       ELSE IF r.msg # NoMsg /\ life.rclosed
       THEN /\ crashed' = TRUE
            /\ out' = Event(i, "BODY", data, r.resp.Code, 0)
            /\ UNCHANGED <<sess, received>>
       ELSE IF r.msg # NoMsg
       THEN /\ Len(received) < ReceivedCap
            /\ received' = Append(received, [sess |-> i, msg |-> r.msg])
            /\ sess' = [sess EXCEPT ![i] = [@ EXCEPT !.pc = "store", !.s = r.s,
                                                    !.resp = r.resp]]
            /\ out' = Event(i, "BODY", data, r.resp.Code, 0)
            /\ UNCHANGED crashed
       ELSE /\ sess' = [sess EXCEPT ![i] = [@ EXCEPT !.pc = "cmd", !.s = r.s,
                                                    !.resp = r.resp]]
            /\ out' = Event(i, "BODY", data, r.resp.Code, 0)
            /\ UNCHANGED <<received, crashed>>
  /\ UNCHANGED <<mem, disk, rate, summ, multi, life, sent, auth, security, storeKind, clock, observe, writer, messages,
                 counter, lastFlush, batches, fl, outgoing, conns, hist>>

\* the NeedsAuthResponse branch
AuthResponse(i, payload) ==
  /\ Alive
  /\ sess[i].pc = "auth"
  /\ LET r == ReadAuthResponse(sess[i].s, payload) IN
       /\ sess' = [sess EXCEPT ![i] = [@ EXCEPT !.pc = "cmd", !.s = r.s, !.resp = r.resp]]
       /\ out' = Event(i, "AUTHRESP", payload, r.resp.Code, r.resp.Code)
  /\ UNCHANGED <<mem, disk, rate, summ, multi, life, sent, auth, security, storeKind, clock, observe, received, writer, messages,
                 counter, lastFlush, batches, fl, outgoing, conns, crashed, hist>>

\* a handler that writes the Session's reply whatever the writer answered
StorageReplyCodeIgnoringErr(err, resp) == resp.Code

\* the reply the handler writes once the writer has answered on the errors channel
StorageReplyCode(err, resp) == IF err = "error" THEN 451 ELSE resp.Code

\* the handler has the writer's answer: it writes the reply, and its slot
\* becomes the given one
StorageReplyThen(i, slot) ==
  /\ Alive
  /\ sess[i].pc = "reply"
  /\ LET code == StorageReplyCode(sess[i].err, sess[i].resp) IN
       /\ out' = Event(i, "STORED", "", sess[i].resp.Code, code)
       /\ hist' = [hist EXCEPT !.acked = IF code = 250 THEN @ \cup {sess[i].id} ELSE @]
  /\ sess' = [sess EXCEPT ![i] = slot]
  /\ UNCHANGED <<mem, disk, rate, summ, multi, life, sent, auth, security, storeKind, clock, observe, received, writer, messages,
                 counter, lastFlush, batches, fl, outgoing, conns, crashed>>

\* the reply, and the loop goes back to ReadCommand; the slot remembers the
\* id of the message the connection has stored
StorageReply(i) ==
  StorageReplyThen(i, [sess[i] EXCEPT !.pc = "cmd", !.err = "none"])

\* the reply, and the next turn of the loop reads the client's QUIT
StorageReplyQuit(i) ==
  /\ IsClose(Advance(auth, sess[i].s, "QUIT", "").resp)
  /\ StorageReplyThen(i, ClosedSlot)

\* ----------------------------------------------------------- MessageWriter.Run
IdleWriter == [busy |-> FALSE, sess |-> 0, msg |-> NoMsg, now |-> 0]

\* receive the next request and evaluate nowGetter()
WriterTake ==
  /\ Alive
  /\ life.wpc = "run"
  /\ ~writer.busy
  /\ received # <<>>
  /\ writer' = [busy |-> TRUE, sess |-> Head(received).sess, msg |-> Head(received).msg,
                now |-> clock]
  /\ received' = Tail(received)
  /\ UNCHANGED <<mem, disk, rate, summ, multi, life, sent, auth, security, storeKind, clock, sess, observe, out, messages,
                 counter, lastFlush, batches, fl, outgoing, conns, crashed, hist>>

\* the processes that can own the maildir: pidGetter()
Pids == {0, 1}

\* more than Maildir.messageCounter ever is
NameBase == MaxStored + MaxConns + 1

\* Maildir.NextUniqueName: "<unix time>.<pid>_<counter>.<host>", as a number
\* that is different for different triples and ordered like the names
DiskName(sec, pid, c) == (sec * Cardinality(Pids) + pid) * NameBase + c

\* the id Store.Add gives the message: the counter of the memory store, the
\* file name of the disk store
NextId(kind, c) == IF kind = "memory" THEN c ELSE DiskName(clock, life.pid, c + 1)

\* the store after Add with the given outcome
StoreAdd(kind, q, id, now, mtime, msg, outcome) ==
  IF kind = "memory" THEN MemoryAdd(q, id, now, msg)
  ELSE IF outcome = "ok" THEN DiskAdd(q, id, now, msg)
  ELSE IF outcome = "errChtimes" THEN DiskAdd(q, id, mtime, msg)
  ELSE q

\* what the writer sends on the request's errors channel
WriterReply(outcome) == IF outcome = "ok" THEN "nil" ELSE "error"

\* Store.Add, then the answer on the request's errors channel
WriterAdd(outcome) ==
  /\ Alive
  /\ writer.busy
  /\ outcome \in AddOutcomes(storeKind)
  /\ LET id == NextId(storeKind, counter) IN
       /\ messages' = StoreAdd(storeKind, messages, id, writer.now, clock, writer.msg, outcome)
       /\ counter' = counter + 1
       /\ sess' = [sess EXCEPT ![writer.sess] =
                     [@ EXCEPT !.pc = "reply", !.err = WriterReply(outcome), !.id = id]]
       /\ hist' = [hist EXCEPT !.added = IF outcome = "ok" THEN @ \cup {id} ELSE @]
  /\ writer' = IdleWriter
  /\ UNCHANGED <<mem, disk, rate, summ, multi, life, sent, auth, security, storeKind, clock, observe, out, received,
                 lastFlush, batches, fl, outgoing, conns, crashed>>

\* --------------------------------------------------------- MessageBuffer.Flush
\* Flush runs without interruption from one wait on the sender to the next:
\* from its start to the first summary it sends (or to its end), and from a
\* reply to the next summary (or to its end).
IdleFlush ==
  [pc |-> "idle", now |-> 0, force |-> FALSE, pending |-> {}, key |-> RecipientKey("", ""),
   reply |-> "none", toRemove |-> {}, toKeep |-> {}, failed |-> {}, snap |-> <<>>,
   emitted |-> {}]

\* the loop over toRemove, in the given order of the ids
RECURSIVE RemoveAll(_, _, _)
RemoveAll(kind, q, order) ==
  IF order = <<>> THEN q
  ELSE RemoveAll(kind, StoreRemove(kind, q, Head(order)), Tail(order))

Orders(S) == {o \in [1..Cardinality(S) -> S] : Range(o) = S}

\* how often Flush has called Store.Remove for the id
RemoveCalls(removes, id) ==
  IF \E r \in removes : r.id = id THEN (CHOOSE r \in removes : r.id = id).n ELSE 0

\* the record of the calls after one more call for each of the ids
RemoveCalled(removes, ids) ==
  {r \in removes : r.id \notin ids}
    \cup {[id |-> id, n |-> RemoveCalls(removes, id) + 1] : id \in ids}

\* the keys the loop over b.messages has still to visit and that are due
DueKeys(b, pending, now, force) ==
  {key \in pending \cap DOMAIN b : force \/ NeedsFlush(b, now, key)}

\* the loop reaches a due key: the summary goes on the outgoing channel and
\* Flush waits for the sender's reply
FlushSendTo(f, b, key, h) ==
  /\ Len(outgoing) < OutgoingCap
  /\ outgoing' = Append(outgoing, [key |-> key, msgs |-> b[key].messages])
  /\ batches' = b
  /\ fl' = [f EXCEPT !.pc = "await", !.key = key, !.pending = @ \ {key}, !.reply = "none",
                     !.emitted = @ \cup {[key |-> key, ids |-> IdsOf(b[key].messages)]}]
  /\ hist' = [h EXCEPT !.handed = @ \cup IdsOf(b[key].messages)]
  /\ UNCHANGED <<messages, lastFlush>>

\* the loop is over: the removals, and b.lastFlush = now; after a forced flush
\* Run returns
FlushFinish(f, b, h) ==
  /\ \E order \in Orders(f.toRemove) :
        messages' = RemoveAll(storeKind, messages, order)
  /\ hist' = [h EXCEPT !.removes = RemoveCalled(@, f.toRemove)]
  /\ batches' = b
  /\ lastFlush' = f.now
  /\ fl' = [IdleFlush EXCEPT !.pc = IF f.force THEN "returned" ELSE "idle"]
  /\ UNCHANGED outgoing

\* now := nowGetter(), the poll of the store, the fold of its result into the
\* batches, and the loop up to its first due key; a forced flush is the one
\* Run makes on GracefulShutdown
Flush(force) ==
  /\ Alive
  /\ fl.pc = "idle"
  /\ LET stored == MessagesNewerThan(storeKind, messages, lastFlush)
         b == AddStored(batches, stored)
         f == [IdleFlush EXCEPT !.now = clock, !.force = force, !.pending = DOMAIN b,
                                !.snap = messages]
         h == [hist EXCEPT !.folds = RemoveCalled(@, IdsOf(stored))]
         due == DueKeys(b, f.pending, f.now, f.force)
     IN IF due = {} THEN FlushFinish(f, b, h)
        ELSE \E key \in due : FlushSendTo(f, b, key, h)
  /\ UNCHANGED <<mem, disk, rate, summ, multi, sent, auth, security, storeKind, clock, sess, observe, out, received, writer,
                 counter, conns, crashed>>

\* a Flush while MessageBuffer.Run goes on
FlushStart(force) ==
  /\ Flush(force)
  /\ UNCHANGED life

\* a Flush that goes on without the sender's answer, as if it were nil
ReplyNotAwaited(reply) == TRUE

\* err := <-sendErrors: Flush goes on once the sender has answered
ReplyReceived(reply) == reply # "none"

\* the sender's answer has arrived on sendErrors: the bookkeeping for the
\* summary, and the loop up to the next due key
FlushReply ==
  /\ Alive
  /\ fl.pc = "await"
  /\ ReplyReceived(fl.reply)
  /\ LET err == fl.reply = "error"
         msgs == batches[fl.key].messages
         b == AfterSendBatches(batches, fl.key, err)
         f == [fl EXCEPT !.toRemove = AfterSendRemove(@, msgs, err),
                         !.toKeep = AfterSendKeep(@, msgs, err),
                         !.failed = IF err THEN @ \cup {fl.key} ELSE @]
         due == DueKeys(b, f.pending, f.now, f.force)
     IN IF due = {} THEN FlushFinish(f, b, hist)
        ELSE \E key \in due : FlushSendTo(f, b, key, hist)
  /\ UNCHANGED <<mem, disk, rate, summ, multi, life, sent, auth, security, storeKind, clock, sess, observe, out, received, writer,
                 counter, conns, crashed>>

\* ------------------------------------------------------------------ Sender.Run
\* what the sender puts on the request's reply channel
SenderReply(sendOk) == IF sendOk THEN "nil" ELSE "error"

NoSend == [ok |-> TRUE, sends |-> 0, saved |-> "none", replies |-> <<>>]

\* what happens at the failed-maildir in one turn: nothing after a send that
\* succeeded, else FailedMaildir.Write, which succeeds or fails
FailedMaildirWrite(sendOk, saveOk) ==
  IF sendOk THEN "none" ELSE IF saveOk THEN "written" ELSE "error"

\* a sender that puts a failed summary aside and answers as if it were sent
SenderReplyAfterSave(sendOk, saveOk) ==
  IF sendOk \/ saveOk THEN "nil" ELSE "error"

\* what the sender puts on the request's reply channel
SenderReplyTo(sendOk, saveOk) == SenderReply(sendOk)

\* the record of a turn of Sender.Run: ok is the outcome of Upstream.Send,
\* sends counts its calls, saved is what happened at the
\* failed-maildir before the reply, replies the values put on SendErrors
SendEvent(sendOk, saveOk) ==
  IF observe
  THEN [ok |-> sendOk, sends |-> 1, saved |-> FailedMaildirWrite(sendOk, saveOk),
        replies |-> <<SenderReplyTo(sendOk, saveOk)>>]
  ELSE sent

\* one request: Upstream.Send succeeds or fails, a failed summary goes to
\* the failed-maildir, and the result of the send is sent back
SenderRun(sendOk, saveOk) ==
  /\ Alive
  /\ life.spc = "run"
  /\ outgoing # <<>>
  /\ outgoing' = Tail(outgoing)
  /\ fl' = [fl EXCEPT !.reply = SenderReplyTo(sendOk, saveOk)]
  /\ sent' = SendEvent(sendOk, saveOk)
  /\ hist' = [hist EXCEPT !.sentOk = IF sendOk THEN @ \cup IdsOf(Head(outgoing).msgs) ELSE @,
                          !.replied = IF SenderReplyTo(sendOk, saveOk) = "nil"
                                      THEN @ \cup IdsOf(Head(outgoing).msgs) ELSE @]
  /\ UNCHANGED <<mem, disk, rate, summ, multi, life, auth, security, storeKind, clock, sess, observe, out, received, writer,
                 messages, counter, lastFlush, batches, conns, crashed>>

\* ---------------------------------------------------------- MultiUpstream.Send
\* what an upstream's Send returns: nil, or the error of an SMTP send, of
\* a maildir write or of a command
UpstreamResults == {"nil", "errA", "errB", "errC"}

RECURSIVE SeqsUpTo(_, _)
SeqsUpTo(S, n) ==
  IF n = 0 THEN {<<>>}
  ELSE LET shorter == SeqsUpTo(S, n - 1) IN
       shorter \cup {Append(q, x) : q \in {r \in shorter : Len(r) = n - 1}, x \in S}

\* the lists of upstreams, each given by what its Send returns
UpstreamLists == SeqsUpTo(UpstreamResults, MaxUpstreams)

\* ups: the upstreams; i: the loop's position; calls: the upstreams whose
\* Send has been called, in the order of the calls; ret: what Send returned
IdleMulti == [pc |-> "idle", ups |-> <<>>, i |-> 1, calls |-> <<>>, ret |-> "none"]

\* a loop that goes on to the next upstream whatever the last one returned
MultiGoesOnAlways(err) == TRUE

\* the loop goes on to the next upstream: err == nil
MultiGoesOn(err) == err = "nil"

\* Send is called on a MultiUpstream over the given upstreams
MultiSend(ups) ==
  /\ multi.pc = "idle"
  /\ multi' = [IdleMulti EXCEPT !.pc = "loop", !.ups = ups]
  /\ UNCHANGED <<mem, disk, rate, summ, life, sent, auth, security, storeKind, clock, sess, observe, out, received,
                 writer, messages, counter, lastFlush, batches, fl, outgoing, conns,
                 crashed, hist>>

\* one turn of the range over the upstreams, or its end
MultiNext ==
  /\ multi.pc = "loop"
  /\ multi' =
       IF multi.i > Len(multi.ups)
       THEN [multi EXCEPT !.pc = "returned", !.ret = "nil"]
       ELSE LET err == multi.ups[multi.i] IN
            IF MultiGoesOn(err)
            THEN [multi EXCEPT !.i = @ + 1, !.calls = Append(@, multi.i)]
            ELSE [multi EXCEPT !.pc = "returned", !.ret = err,
                               !.calls = Append(@, multi.i)]
  /\ UNCHANGED <<mem, disk, rate, summ, life, sent, auth, security, storeKind, clock, sess, observe, out, received,
                 writer, messages, counter, lastFlush, batches, fl, outgoing, conns,
                 crashed, hist>>

\* the caller has the result, and the MultiUpstream is free for the next Send
MultiReturn ==
  /\ multi.pc = "returned"
  /\ multi' = IdleMulti
  /\ UNCHANGED <<mem, disk, rate, summ, life, sent, auth, security, storeKind, clock, sess, observe, out, received,
                 writer, messages, counter, lastFlush, batches, fl, outgoing, conns,
                 crashed, hist>>

\* ------------------------------------------------------- Compact and Summarize
\* a message without a Date header that parses
NoDate == -2

\* what the group expression makes of a message, and the subjects
GroupKeys == {"k1", "k2"}
Subjects == {"s1", "s2"}

\* a stored message as Compact reads it: the key group() returns for it, its
\* Subject header and its Date header
SummaryMessages == [key : GroupKeys, subject : Subjects, date : {NoDate} \cup 0..MaxTime]

StoredLists == SeqsUpTo(SummaryMessages, MaxSummary)

\* &UniqueMessage{Template: key}: zero times, empty subject, count 0
NewUnique(key) ==
  [Template |-> key, Start |-> ZeroTime, End |-> ZeroTime, Subject |-> "", Count |-> 0]

\* a count that is set to 1 for every message of the group
CountOnce(count) == 1

\* unique.Count += 1
CountUp(count) == count + 1

\* the body of Compact's loop for one message (the Body field, the text of
\* the last message of the group, is left out)
CompactOne(result, msg) ==
  LET known == \E j \in 1..Len(result) : result[j].Template = msg.key
      with == IF known THEN result ELSE Append(result, NewUnique(msg.key))
      j == CHOOSE k \in 1..Len(with) : with[k].Template = msg.key
      unique == with[j]
      dated == IF msg.date = NoDate THEN unique
               ELSE [unique EXCEPT
                       !.Start = IF @ = ZeroTime \/ msg.date < @ THEN msg.date ELSE @,
                       !.End = IF @ = ZeroTime \/ msg.date > @ THEN msg.date ELSE @]
  IN [with EXCEPT ![j] = [dated EXCEPT !.Subject = msg.subject,
                                       !.Count = CountUp(@)]]

RECURSIVE CompactFrom(_, _, _)
CompactFrom(stored, i, result) ==
  IF i > Len(stored) THEN result
  ELSE CompactFrom(stored, i + 1, CompactOne(result, stored[i]))

\* the UniqueMessages of the stored messages, in the order of first appearance
Compact(stored) == CompactFrom(stored, 1, <<>>)

\* a Plural that never uses the singular
PluralAlways(count, singular, plural) == ToString(count) \o " " \o plural

\* fmt.Sprintf("%d %s", count, word)
Plural(count, singular, plural) ==
  ToString(count) \o " " \o (IF count = 1 THEN singular ELSE plural)

Summarize(to, stored) ==
  LET uniques == Compact(stored)
      instances == Plural(Len(stored), "instance", "instances")
  IN [To |-> <<to>>,
      Subject |-> IF Len(uniques) = 1
                  THEN "[failmail] " \o instances \o ": " \o uniques[1].Subject
                  ELSE "[failmail] " \o instances \o " of "
                         \o Plural(Len(uniques), "message", "messages"),
      StoredMessages |-> stored,
      UniqueMessages |-> uniques]

NoSummary == [To |-> <<>>, Subject |-> "", StoredMessages |-> <<>>, UniqueMessages |-> <<>>]

IdleSummary == [pc |-> "idle", summary |-> NoSummary]

\* Summarize is called with a recipient and a list of stored messages
SummarizeCall(to, stored) ==
  /\ summ.pc = "idle"
  /\ summ' = [pc |-> "built", summary |-> Summarize(to, stored)]
  /\ UNCHANGED <<mem, disk, rate, multi, life, sent, auth, security, storeKind, clock, sess, observe, out,
                 received, writer, messages, counter, lastFlush, batches, fl, outgoing,
                 conns, crashed, hist>>

\* the caller has the summary
SummaryTaken ==
  /\ summ.pc = "built"
  /\ summ' = IdleSummary
  /\ UNCHANGED <<mem, disk, rate, multi, life, sent, auth, security, storeKind, clock, sess, observe, out,
                 received, writer, messages, counter, lastFlush, batches, fl, outgoing,
                 conns, crashed, hist>>

\* ------------------------------------------------------------------ RateCounter
\* the Value of a ring element that has never been set
NilValue == -1

\* the limits a RateCounter is made with, and the numbers of messages added
Limits == {0, 3}
Amounts == {1, 2}

\* Limit, counts and position (the element r.counts points to) are the
\* RateCounter; adds are the amounts added since the last CheckAndAdvance,
\* past the amounts of the intervals closed so far (oldest first), ret the
\* result of the last CheckAndAdvance
NoCheck == [exceeded |-> FALSE, total |-> -1]

NoRate == [pc |-> "none", Limit |-> 0, counts |-> <<>>, position |-> 1,
           adds |-> <<>>, past |-> <<>>, ret |-> NoCheck]

\* &RateCounter{limit, ring.New(intervals)}
NewRateCounter(limit, intervals) ==
  [NoRate EXCEPT !.pc = "made", !.Limit = limit,
                 !.counts = [k \in 1..intervals |-> NilValue]]

\* an Add that overwrites the count of the interval
AddOverwrites(value, n) == n

\* the new Value of the current element
AddTo(value, n) == IF value = NilValue THEN n ELSE value + n

\* a flag that does not look at whether a limit is set
ExceededAnyLimit(limit, sum) == sum >= limit

\* r.Limit > 0 && sum >= r.Limit
Exceeded(limit, sum) == limit > 0 /\ sum >= limit

RECURSIVE SumFrom(_, _)
\* counts.Do: the sum of the values that are not nil
SumFrom(counts, i) ==
  IF i > Len(counts) THEN 0
  ELSE (IF counts[i] = NilValue THEN 0 ELSE counts[i]) + SumFrom(counts, i + 1)

\* r.counts.Next()
RingNext(r) == (r.position % Len(r.counts)) + 1

RateNew(limit, intervals) ==
  /\ rate.pc = "none"
  /\ rate' = NewRateCounter(limit, intervals)
  /\ UNCHANGED <<mem, disk, summ, multi, life, sent, auth, security, storeKind, clock, sess, observe, out,
                 received, writer, messages, counter, lastFlush, batches, fl, outgoing,
                 conns, crashed, hist>>

RateAdd(n) ==
  /\ rate.pc = "made"
  /\ Len(rate.adds) < MaxAdds
  /\ rate' = [rate EXCEPT !.counts[rate.position] = AddTo(@, n),
                          !.adds = Append(@, n)]
  /\ UNCHANGED <<mem, disk, summ, multi, life, sent, auth, security, storeKind, clock, sess, observe, out,
                 received, writer, messages, counter, lastFlush, batches, fl, outgoing,
                 conns, crashed, hist>>

RateCheckAndAdvance ==
  /\ rate.pc = "made"
  /\ Len(rate.past) < MaxChecks
  /\ LET sum == SumFrom(rate.counts, 1) IN
     rate' = [rate EXCEPT !.position = RingNext(rate),
                          !.counts[RingNext(rate)] = 0,
                          !.ret = [exceeded |-> Exceeded(rate.Limit, sum), total |-> sum],
                          !.past = Append(@, rate.adds),
                          !.adds = <<>>]
  /\ UNCHANGED <<mem, disk, summ, multi, life, sent, auth, security, storeKind, clock, sess, observe, out,
                 received, writer, messages, counter, lastFlush, batches, fl, outgoing,
                 conns, crashed, hist>>

\* ------------------------------------------- DiskStore, step by step on the files
\* tmp and cur are the names in those directories; meta the files of .meta,
\* each with its name, whether its JSON is written (full) and its mod time;
\* counter is Maildir.messageCounter. add, rem and poll are the positions of
\* Add (in the writer), Remove and MessagesNewerThan (in the summarizer);
\* known are the ids the summarizer has from its polls, final the receive
\* time each name was last added with, crashes the number of crashes
IdleAdd == [pc |-> "idle", name |-> 0, now |-> 0]
IdleRemove == [pc |-> "idle", name |-> 0]
IdlePoll == [pc |-> "idle", t |-> 0, files |-> <<>>, result |-> <<>>, errors |-> 0]

EmptyDisk ==
  [tmp |-> {}, cur |-> {}, meta |-> {}, counter |-> 0, add |-> IdleAdd,
   rem |-> IdleRemove, poll |-> IdlePoll, known |-> {}, final |-> {}, crashes |-> 0]

MetaNames(meta) == {f.name : f \in meta}

\* the file of .meta with the given name is created, truncated or written
MetaPut(meta, name, full, mtime) ==
  {f \in meta : f.name # name} \cup {[name |-> name, full |-> full, mtime |-> mtime]}

\* the record of the receive time a name is added with
FinalPut(final, name, now) ==
  {f \in final : f.name # name} \cup {[name |-> name, now |-> now]}

\* ioutil.ReadDir: the entries sorted by name
RECURSIVE SortedByName(_)
SortedByName(files) ==
  IF files = {} THEN <<>>
  ELSE LET f == CHOOSE x \in files : \A y \in files : x.name <= y.name
       IN <<[name |-> f.name, mtime |-> f.mtime]>> \o SortedByName(files \ {f})

\* Remove deletes the metadata first, then the contents
RemoveOrder == <<"meta", "cur">>

\* the maildir after os.Remove of the name in the directory
DiskUnlink(d, dir, name) ==
  IF dir = "meta" THEN [d EXCEPT !.meta = {f \in @ : f.name # name}]
  ELSE [d EXCEPT !.cur = @ \ {name}]

DiskHas(d, dir, name) ==
  IF dir = "meta" THEN name \in MetaNames(d.meta) ELSE name \in d.cur

DiskStep(d) ==
  /\ Alive
  /\ disk' = d
  /\ UNCHANGED <<mem, rate, summ, multi, life, sent, auth, security, storeKind, clock, sess, observe, out,
                 received, writer, messages, counter, lastFlush, batches, fl, outgoing,
                 conns, crashed, hist>>

\* DiskStore.Add, Maildir.Write: NextUniqueName and WriteFile in tmp
DiskAddTmp(ok) ==
  /\ disk.add.pc = "idle"
  /\ disk.counter < MaxFiles
  /\ LET name == disk.counter + 1 IN
       DiskStep([disk EXCEPT !.counter = name,
                             !.tmp = IF ok THEN @ \cup {name} ELSE @,
                             !.add = IF ok THEN [pc |-> "rename", name |-> name, now |-> clock]
                                     ELSE IdleAdd])

\* Maildir.Write: os.Rename from tmp to cur
DiskAddRename(ok) ==
  /\ disk.add.pc = "rename"
  /\ DiskStep(IF ok
              THEN [disk EXCEPT !.tmp = @ \ {disk.add.name}, !.cur = @ \cup {disk.add.name},
                                !.add.pc = "create"]
              ELSE [disk EXCEPT !.add = IdleAdd])

\* writeMetadata, ioutil.WriteFile: the file is created or truncated
DiskAddMetaCreate(ok) ==
  /\ disk.add.pc = "create"
  /\ DiskStep(IF ok
              THEN [disk EXCEPT !.meta = MetaPut(@, disk.add.name, FALSE, clock),
                                !.final = FinalPut(@, disk.add.name, disk.add.now),
                                !.add.pc = "write"]
              ELSE [disk EXCEPT !.add = IdleAdd])

\* writeMetadata, ioutil.WriteFile: the JSON is written to the open file
DiskAddMetaWrite(ok) ==
  /\ disk.add.pc = "write"
  /\ DiskStep(IF ok
              THEN [disk EXCEPT !.meta = IF disk.add.name \in MetaNames(@)
                                         THEN MetaPut(@, disk.add.name, TRUE, clock) ELSE @,
                                !.add.pc = "chtimes"]
              ELSE [disk EXCEPT !.add = IdleAdd])

\* writeMetadata: os.Chtimes(metadataPath, now, now), and Add returns
DiskAddChtimes(ok) ==
  /\ disk.add.pc = "chtimes"
  /\ DiskStep([disk EXCEPT !.meta = IF ok /\ disk.add.name \in MetaNames(@)
                                    THEN MetaPut(@, disk.add.name, TRUE, disk.add.now) ELSE @,
                           !.add = IdleAdd])

\* DiskStore.Remove of an id the summarizer has polled: the first os.Remove;
\* when it fails Remove returns
DiskRemoveFirst(name) ==
  /\ disk.rem.pc = "idle" /\ disk.poll.pc = "idle"
  /\ name \in disk.known
  /\ DiskStep(IF DiskHas(disk, RemoveOrder[1], name)
              THEN [DiskUnlink(disk, RemoveOrder[1], name) EXCEPT
                      !.rem = [pc |-> "second", name |-> name]]
              ELSE disk)

\* DiskStore.Remove: the second os.Remove
DiskRemoveSecond ==
  /\ disk.rem.pc = "second"
  /\ DiskStep([DiskUnlink(disk, RemoveOrder[2], disk.rem.name) EXCEPT !.rem = IdleRemove])

\* DiskStore.MessagesNewerThan: Maildir.List(MAILDIR_META)
DiskPollList(t) ==
  /\ disk.rem.pc = "idle" /\ disk.poll.pc = "idle"
  /\ DiskStep([disk EXCEPT !.poll = [IdlePoll EXCEPT !.pc = "read", !.t = t,
                                                      !.files = SortedByName(disk.meta)]])

\* readMessage succeeds: the metadata file is there and its JSON parses,
\* and the contents are in cur
Readable(d, name) ==
  /\ \E f \in d.meta : f.name = name /\ f.full
  /\ name \in d.cur

\* one turn of the loop over the listed files, or its end
DiskPollNext ==
  /\ disk.poll.pc = "read"
  /\ DiskStep(
       IF disk.poll.files = <<>>
       THEN [disk EXCEPT !.poll.pc = "idle",
                         !.known = @ \cup {r.name : r \in Range(disk.poll.result)}]
       ELSE LET info == Head(disk.poll.files) IN
            IF info.mtime < disk.poll.t
            THEN [disk EXCEPT !.poll.files = Tail(@)]
            ELSE IF Readable(disk, info.name)
            THEN [disk EXCEPT !.poll.files = Tail(@),
                              !.poll.result = Append(@, [name |-> info.name,
                                                         Received |-> info.mtime])]
            ELSE [disk EXCEPT !.poll.files = Tail(@), !.poll.errors = 1])

\* the process dies between two steps and is started again over the same
\* maildir; the counter of the new Maildir starts at 0, and its names are
\* those of the old process (same second and pid) or new ones
DiskCrash(sameNames) ==
  /\ disk.crashes < MaxCrashes
  /\ DiskStep([disk EXCEPT !.crashes = @ + 1, !.add = IdleAdd, !.rem = IdleRemove,
                           !.poll = IdlePoll, !.known = {},
                           !.counter = IF sameNames THEN 0 ELSE @])

\* ------------------------------------- MemoryStore, step by step in two goroutines
\* q is *s.messages and counter s.counter; add is the position of Add in the
\* writer (j the position heap.Push hands to up), op that of
\* MessagesNewerThan or Remove in the summarizer (i the position it found);
\* result is what the last poll returned, known the ids the summarizer has
IdleMemAdd == [pc |-> "idle", j |-> 0]
IdleMemOp == [pc |-> "idle", i |-> 0]

EmptyMem ==
  [q |-> <<>>, counter |-> 0, add |-> IdleMemAdd, op |-> IdleMemOp, result |-> <<>>,
   known |-> {}]

\* a step on the store; an index out of range panics
MemStep(m, panic) ==
  /\ Alive
  /\ mem' = IF panic THEN mem ELSE m
  /\ crashed' = panic
  /\ UNCHANGED <<disk, rate, summ, multi, life, sent, auth, security, storeKind, clock, sess, observe, out,
                 received, writer, messages, counter, lastFlush, batches, fl, outgoing,
                 conns, hist>>

\* MemoryStore.Add: the StoredMessage, s.counter += 1, and in heap.Push the
\* append to the array
MemAddPush(to) ==
  /\ mem.add.pc = "idle"
  /\ mem.counter < MaxStored
  /\ MemStep([mem EXCEPT !.q = Append(@, [Id |-> mem.counter, Received |-> clock,
                                           To |-> to, Data |-> "p0"]),
                          !.counter = @ + 1,
                          !.add = [pc |-> "up", j |-> Len(mem.q) + 1]], FALSE)

\* heap.Push: up(h, n - 1), and Add returns
MemAddUp ==
  /\ mem.add.pc = "up"
  /\ MemStep([mem EXCEPT !.q = IF mem.add.j <= Len(@) THEN heapUp(@, mem.add.j) ELSE @,
                          !.add = IdleMemAdd],
             mem.add.j > Len(mem.q))

\* MemoryStore.MessagesNewerThan: sort.Search
MemPollSearch(t) ==
  /\ mem.op.pc = "idle"
  /\ MemStep([mem EXCEPT !.op = [pc |-> "copy", i |-> Search(mem.q, t, 0, Len(mem.q))]],
             FALSE)

\* MemoryStore.MessagesNewerThan: the loop over (*s.messages)[0:i]
MemPollCopy ==
  /\ mem.op.pc = "copy"
  /\ MemStep([mem EXCEPT !.result = SubSeq(mem.q, 1, mem.op.i),
                          !.known = @ \cup IdsOf(SubSeq(mem.q, 1, mem.op.i)),
                          !.op = IdleMemOp],
             mem.op.i > Len(mem.q))

\* MemoryStore.Remove: the loop that looks for the id
MemRemoveFind(id) ==
  /\ mem.op.pc = "idle"
  /\ id \in mem.known
  /\ MemStep(IF \E i \in 1..Len(mem.q) : mem.q[i].Id = id
             THEN [mem EXCEPT !.op = [pc |-> "remove",
                                      i |-> SetMin({i \in 1..Len(mem.q) : mem.q[i].Id = id})]]
             ELSE mem, FALSE)

\* MemoryStore.Remove: heap.Remove(s.messages, i)
MemRemoveAt ==
  /\ mem.op.pc = "remove"
  /\ MemStep([mem EXCEPT !.q = IF mem.op.i <= Len(@) THEN heapRemove(@, mem.op.i) ELSE @,
                          !.op = IdleMemOp],
             mem.op.i > Len(mem.q))

\* ---------------------------------------------------------------------- clock
Tick ==
  /\ Alive
  /\ clock < MaxTime
  /\ clock' = clock + 1
  /\ UNCHANGED <<mem, disk, rate, summ, multi, life, sent, auth, security, storeKind, sess, observe, out, received, writer, messages,
                 counter, lastFlush, batches, fl, outgoing, conns, crashed, hist>>

\* ------------------------------------------------- a client's whole delivery
\* a connection that is accepted and sends MAIL, the RCPTs, DATA and the
\* payload of one message, as one step: the Session methods are applied in the
\* order of the commands
RECURSIVE AdvanceRcpts(_, _, _, _)
AdvanceRcpts(a, s, to, n) ==
  IF n > Len(to) THEN Result(Resp(250, "OK"), s, NoMsg)
  ELSE LET r == Advance(a, s, "RCPT", to[n]) IN
       IF r.panic \/ r.resp.Code # 250 THEN r ELSE AdvanceRcpts(a, r.s, to, n + 1)

\* the slot a new connection takes
FreeSlot(i) == sess[i].pc = "closed" /\ \A j \in Sessions : sess[j].pc = "closed" => i <= j

Deliver(i, limit, from, to, data) ==
  /\ Alive
  /\ life.apc = "accepting" /\ life.sock = "open"
  /\ FreeSlot(i)
  /\ conns < limit
  /\ conns' = conns + 1
  /\ LET r1 == Advance(auth, Start(auth, security), "MAIL", from)
         r2 == AdvanceRcpts(auth, r1.s, to, 1)
         r3 == Advance(auth, r2.s, "DATA", "")
         r4 == ReadData(r3.s, data)
     IN /\ ~r1.panic /\ r1.resp.Code = 250
        /\ ~r2.panic /\ r2.resp.Code = 250
        /\ NeedsData(r3.resp)
        /\ ~r4.panic /\ r4.msg # NoMsg
        /\ Len(received) < ReceivedCap
        /\ received' = Append(received, [sess |-> i, msg |-> r4.msg])
        /\ sess' = [sess EXCEPT ![i] = [ClosedSlot EXCEPT !.pc = "store", !.s = r4.s,
                                                          !.resp = r4.resp]]
        /\ out' = Event(i, "BODY", data, r4.resp.Code, 0)
  /\ UNCHANGED <<mem, disk, rate, summ, multi, life, sent, auth, security, storeKind, clock, observe, writer, messages,
                 counter, lastFlush, batches, fl, outgoing, crashed, hist>>

\* ------------------------------------------------------- main and its goroutines
GracefulShutdown == "GracefulShutdown"
Reload == "Reload"
NoRequest == "none"
TerminationRequests == {GracefulShutdown, Reload}

\* the descriptor syscall.Dup returns (0 stands for no descriptor)
DupFd == 4

\* main has started its four goroutines and waits in HandleSignals.
\*   ldone, bdone: the done channels (capacity 1) of the receiver and the sender side
\*   mpc:  main (signals, wait, reload, exec: the new instance is started, exit)
\*   lpc:  Listen (select, close, waitaccept, waitsessions, returned)
\*   apc:  the accept loop (accepting, finished: blocked on acceptFinished, done)
\*   sock: the listening socket; dup: the descriptor syscall.Dup made (0: none)
\*   newFd, reloadFd: Listen's local and main's variable of that name
\*   timedOut: the timer of WaitWithTimeout has fired
\*   rclosed, oclosed: the received and the outgoing channel are closed
\*   closes: the calls of close(received)
\*   wpc, bpc, spc: MessageWriter.Run, MessageBuffer.Run, Sender.Run
\*   midway: history, the sessions that were inside a message at the signal
\*   pid: pidGetter(); restarts: how often the process has been started again
Running ==
  [sig |-> NoRequest, ldone |-> NoRequest, bdone |-> NoRequest, mpc |-> "signals",
   lpc |-> "select", apc |-> "accepting", sock |-> "open", dup |-> 0, newFd |-> 0,
   reloadFd |-> 0, timedOut |-> FALSE, rclosed |-> FALSE, closes |-> 0,
   wpc |-> "run", bpc |-> "run", oclosed |-> FALSE, spc |-> "run", midway |-> {},
   pid |-> 0, restarts |-> 0]

LifeUnchanged ==
  UNCHANGED <<mem, disk, rate, summ, multi, sent, auth, security, storeKind, clock, sess, observe, out, received, writer,
              messages, counter, lastFlush, batches, fl, outgoing, conns, crashed, hist>>

\* a session between its MAIL and the end of its payload
InMessage(slot) ==
  \/ slot.pc = "data"
  \/ slot.pc = "cmd" /\ ~slot.s.Received.nil /\ slot.s.Received.From # ""

\* HandleSignals: a signal arrives and the request goes to every done channel
HandleSignals(req) ==
  /\ Alive
  /\ life.mpc = "signals"
  /\ life' = [life EXCEPT !.sig = req, !.ldone = req, !.bdone = req, !.mpc = "wait",
                          !.midway = {i \in Sessions : InMessage(sess[i])}]
  /\ LifeUnchanged

\* a Listen that does not duplicate the descriptor on Reload
ListenTakeNoDup(l) ==
  [l EXCEPT !.ldone = NoRequest, !.lpc = "close"]

\* Listen's select takes the request from done; on Reload Socket.Fd and
\* syscall.Dup give newFd
ListenTake(l) ==
  [l EXCEPT !.ldone = NoRequest, !.lpc = "close",
            !.dup = IF l.ldone = Reload THEN DupFd ELSE @,
            !.newFd = IF l.ldone = Reload THEN DupFd ELSE @]

ListenDone ==
  /\ Alive
  /\ life.lpc = "select" /\ life.ldone # NoRequest
  /\ life' = ListenTake(life)
  /\ LifeUnchanged

\* Socket.Close
ListenClose ==
  /\ Alive
  /\ life.lpc = "close"
  /\ life' = [life EXCEPT !.sock = "closed", !.lpc = "waitaccept"]
  /\ LifeUnchanged

\* Accept returns an error on the closed socket and the loop breaks
AcceptBreak ==
  /\ Alive
  /\ life.apc = "accepting" /\ life.sock = "closed"
  /\ life' = [life EXCEPT !.apc = "finished"]
  /\ LifeUnchanged

\* acceptFinished <- true meets Listen's <-acceptFinished
AcceptFinished ==
  /\ Alive
  /\ life.apc = "finished" /\ life.lpc = "waitaccept"
  /\ life' = [life EXCEPT !.apc = "done", !.lpc = "waitsessions"]
  /\ LifeUnchanged

\* the handlers that have not returned: the count of the WaitGroup
OpenSessions == {i \in Sessions : sess[i].pc # "closed"}

\* a wait that returns at once
WaitReturnsAtOnce(open) == TRUE

\* waitGroup.Wait() has returned
WaitGroupDone(open) == open = {}

\* WaitWithTimeout can return: false when the timer has fired, true when the
\* WaitGroup is at zero
WaitWithTimeout(open, timeout) == timeout \/ WaitGroupDone(open)

\* WaitWithTimeout returns, then close(received) and the return of newFd
\* into main's reloadFd
ListenReturn(timeout) ==
  /\ Alive
  /\ life.lpc = "waitsessions"
  /\ WaitWithTimeout(OpenSessions, timeout)
  /\ life' = [life EXCEPT !.lpc = "returned", !.timedOut = timeout, !.rclosed = TRUE,
                          !.closes = @ + 1, !.reloadFd = life.newFd]
  /\ LifeUnchanged

\* a writer that returns as soon as the channel is closed
WriterStopsOnClose(rcv, w, closed) == closed /\ ~w.busy

\* the range over the received channel ends: closed and drained
WriterDrained(rcv, w, closed) == closed /\ rcv = <<>> /\ ~w.busy

WriterReturn ==
  /\ Alive
  /\ life.wpc = "run" /\ WriterDrained(received, writer, life.rclosed)
  /\ life' = [life EXCEPT !.wpc = "done"]
  /\ LifeUnchanged

\* MessageBuffer.Run, the tick
BufferTick ==
  /\ life.bpc = "run"
  /\ FlushStart(FALSE)

\* MessageBuffer.Run takes a request from done: GracefulShutdown starts
\* Flush(outgoing, true), any other request is dropped
BufferDone ==
  /\ life.bpc = "run" /\ life.bdone # NoRequest /\ fl.pc = "idle"
  /\ IF life.bdone = GracefulShutdown
     THEN Flush(TRUE)
     ELSE /\ Alive
          /\ UNCHANGED <<mem, disk, rate, summ, multi, sent, auth, security, storeKind, clock, sess, observe, out,
                         received, writer, messages, counter, lastFlush, batches, fl,
                         outgoing, conns, crashed, hist>>
  /\ life' = [life EXCEPT !.bdone = NoRequest,
                          !.bpc = IF life.bdone = GracefulShutdown THEN "cleanup" ELSE @]

\* after the forced Flush: close(outgoing) and return
BufferReturn ==
  /\ Alive
  /\ life.bpc = "cleanup" /\ fl.pc = "returned"
  /\ life' = [life EXCEPT !.bpc = "done", !.oclosed = TRUE]
  /\ LifeUnchanged

\* the range over the outgoing channel ends
SenderReturn ==
  /\ Alive
  /\ life.spc = "run" /\ outgoing = <<>> /\ life.oclosed
  /\ life' = [life EXCEPT !.spc = "done"]
  /\ LifeUnchanged

\* waitGroup.Wait() in main returns
MainWait ==
  /\ Alive
  /\ life.mpc = "wait"
  /\ life.lpc = "returned" /\ life.wpc = "done" /\ life.bpc = "done" /\ life.spc = "done"
  /\ life' = [life EXCEPT !.mpc = "reload"]
  /\ LifeUnchanged

\* TryReload(shouldReload, reloadFd): the new instance on Reload, and main returns
TryReload ==
  /\ Alive
  /\ life.mpc = "reload"
  /\ life' = [life EXCEPT !.mpc = IF life.sig = Reload THEN "exec" ELSE "exit"]
  /\ LifeUnchanged

\* ------------------------------------------------------------ specifications
EmptyHist ==
  [acked |-> {}, added |-> {}, sentOk |-> {}, live |-> {}, replied |-> {}, removes |-> {},
   folds |-> {}, handed |-> {}]

InitCommon ==
  /\ clock = 0
  /\ sess = [i \in Sessions |-> ClosedSlot]
  /\ out = NoEvent
  /\ received = <<>>
  /\ writer = IdleWriter
  /\ messages = <<>>
  /\ counter = 0
  /\ lastFlush = ZeroTime
  /\ batches = NewBatches
  /\ fl = IdleFlush
  /\ outgoing = <<>>
  /\ conns = 0
  /\ crashed = FALSE
  /\ hist = EmptyHist
  /\ life = Running
  /\ sent = NoSend
  /\ multi = IdleMulti
  /\ summ = IdleSummary
  /\ rate = NoRate
  /\ disk = EmptyDisk
  /\ mem = EmptyMem

\* the pipeline: a listener without an auth policy in front of the memory
\* store, the summarizer and the sender
Init ==
  /\ auth = AuthNil
  /\ security = UNENCRYPTED
  /\ storeKind = "memory"
  /\ observe = FALSE
  /\ InitCommon

Next ==
  \/ \E i \in Sessions, to \in RcptLists : Deliver(i, MaxConns, "a", to, "p0")
  \/ \E i \in Sessions : StorageReplyQuit(i)
  \/ WriterTake
  \/ \E outcome \in AddOutcomes(storeKind) : WriterAdd(outcome)
  \/ \E force \in BOOLEAN : FlushStart(force)
  \/ FlushReply
  \/ \E sendOk, saveOk \in BOOLEAN : SenderRun(sendOk, saveOk)
  \/ Tick

Spec == Init /\ [][Next]_vars

\* one connection at a time, command by command, under every auth policy and
\* transport security, in front of the writer and the disk store
SessionSlot == 1

\* what a client sends after 354: a payload that parses, one that does not,
\* and a stream that breaks before the final "."
SessionBodies == {"p0", "bad", "readerr"}

InitSession ==
  /\ auth \in Auths
  /\ security \in Securities
  /\ storeKind = "disk"
  /\ observe = TRUE
  /\ InitCommon

NextSession ==
  \/ Accept(SessionSlot, MaxSessionConns)
  \/ Disconnect(SessionSlot)
  \/ \E cmd \in (Commands \cup {"BADLINE"}) \ {"MAIL", "RCPT", "AUTH"} :
        Command(SessionSlot, cmd, "")
  \/ Command(SessionSlot, "MAIL", "a")
  \/ \E to \in Addrs :
        /\ Len(sess[SessionSlot].s.Received.To) < MaxRcpt
        /\ Command(SessionSlot, "RCPT", to)
  \/ \E payload \in AuthPayloads : Command(SessionSlot, "AUTH", <<"PLAIN", payload>>)
  \/ \E type \in AuthTypes \ {"PLAIN"} : Command(SessionSlot, "AUTH", <<type, "good">>)
  \/ \E data \in SessionBodies : Body(SessionSlot, data)
  \/ \E payload \in AuthPayloads \cup {"readerr"} : AuthResponse(SessionSlot, payload)
  \/ StorageReply(SessionSlot)
  \/ WriterTake
  \/ \E outcome \in AddOutcomes(storeKind) : WriterAdd(outcome)

SpecSession == InitSession /\ [][NextSession]_vars

\* the whole process from start to the end of main: one connection at a time,
\* command by command, no auth policy, the memory store, and a shutdown or a
\* reload at any moment
InitLife ==
  /\ auth = AuthNil
  /\ security = UNENCRYPTED
  /\ storeKind = "memory"
  /\ observe = TRUE
  /\ InitCommon

\* the steps of the clients and the arrival of a signal
NextClient ==
  \/ Accept(SessionSlot, MaxSessionConns)
  \/ Disconnect(SessionSlot)
  \/ \E cmd \in {"DATA", "QUIT"} : Command(SessionSlot, cmd, "")
  \/ Command(SessionSlot, "MAIL", "a")
  \/ /\ sess[SessionSlot].s.Received.To = <<>>
     /\ Command(SessionSlot, "RCPT", "a")
  \/ Body(SessionSlot, "p0")
  \/ \E req \in TerminationRequests : HandleSignals(req)

\* the steps of the process itself
NextProcess ==
  \/ StorageReply(SessionSlot)
  \/ WriterTake
  \/ \E outcome \in AddOutcomes(storeKind) : WriterAdd(outcome)
  \/ WriterReturn
  \/ ListenDone
  \/ ListenClose
  \/ AcceptBreak
  \/ AcceptFinished
  \/ \E timeout \in BOOLEAN : ListenReturn(timeout)
  \/ BufferTick
  \/ BufferDone
  \/ FlushReply
  \/ BufferReturn
  \/ \E sendOk, saveOk \in BOOLEAN : SenderRun(sendOk, saveOk)
  \/ SenderReturn
  \/ MainWait
  \/ TryReload

NextLife == NextClient \/ NextProcess

SpecLife == InitLife /\ [][NextLife]_vars

\* every goroutine of the process that can take a step eventually takes one;
\* nothing is assumed of the clients or of the signals
SpecLifeFair == SpecLife /\ WF_vars(NextProcess)

\* a store on its own, of either kind: the Add of MessageWriter.Run at the
\* time of the clock, the Remove of Flush, and the clock
InitStore ==
  /\ auth = AuthNil
  /\ security = UNENCRYPTED
  /\ storeKind \in {"memory", "disk"}
  /\ observe = FALSE
  /\ InitCommon

\* w.Store.Add(nowGetter(), req.Message); hist.added are the ids Add has
\* returned, hist.live the messages added and not removed since
StoreAddNow(to) ==
  /\ counter < MaxStored
  /\ LET id == NextId(storeKind, counter)
         msg == [nil |-> FALSE, From |-> "a", To |-> to, Data |-> "p0"]
     IN /\ messages' = StoreAdd(storeKind, messages, id, clock, clock, msg, "ok")
        /\ hist' = [hist EXCEPT !.added = @ \cup {id},
                                !.live = @ \cup {[Id |-> id, Received |-> clock,
                                                  To |-> to, Data |-> "p0"]}]
  /\ counter' = counter + 1
  /\ UNCHANGED <<mem, disk, rate, summ, multi, life, sent, auth, security, storeKind, clock, sess, observe, out, received,
                 writer, lastFlush, batches, fl, outgoing, conns, crashed>>

\* b.Store.Remove(id), for an id Add has returned, in the store or not
StoreRemoveId(id) ==
  /\ id \in hist.added
  /\ messages' = StoreRemove(storeKind, messages, id)
  /\ hist' = [hist EXCEPT !.live = {m \in @ : m.Id # id}]
  /\ UNCHANGED <<mem, disk, rate, summ, multi, life, sent, auth, security, storeKind, clock, sess, observe, out, received,
                 writer, counter, lastFlush, batches, fl, outgoing, conns, crashed>>

\* s.Add(nowGetter(), msg) and then s.Remove of the id it returned, on the
\* memory store
StoreAddThenRemove(to) ==
  /\ storeKind = "memory"
  /\ counter < MaxStored
  /\ LET id == NextId(storeKind, counter)
         msg == [nil |-> FALSE, From |-> "a", To |-> to, Data |-> "p0"]
     IN /\ messages' = MemoryRemove(MemoryAdd(messages, id, clock, msg), id)
        /\ hist' = [hist EXCEPT !.added = @ \cup {id}]
  /\ counter' = counter + 1
  /\ UNCHANGED <<mem, disk, rate, summ, multi, life, sent, auth, security, storeKind, clock, sess, observe, out, received,
                 writer, lastFlush, batches, fl, outgoing, conns, crashed>>

NextStore ==
  \/ \E to \in RcptLists : StoreAddNow(to)
  \/ \E to \in RcptLists : StoreAddThenRemove(to)
  \/ \E id \in hist.added : StoreRemoveId(id)
  \/ Tick

SpecStore == InitStore /\ [][NextStore]_vars

\* the disk store over restarts of the process: the maildir stays, the
\* Maildir struct and the pid are new
InitRestart ==
  /\ auth = AuthNil
  /\ security = UNENCRYPTED
  /\ storeKind = "disk"
  /\ observe = FALSE
  /\ InitCommon

\* the process ends at any point and is started again: NewDiskStore over the
\* same directory, messageCounter at zero, the pid the system gives it
Restart(pid) ==
  /\ storeKind = "disk"
  /\ life.restarts < MaxRestarts
  /\ life' = [Running EXCEPT !.pid = pid, !.restarts = life.restarts + 1]
  /\ counter' = 0
  /\ UNCHANGED <<mem, disk, rate, summ, multi, sent, auth, security, storeKind, clock, sess, observe, out, received,
                 writer, messages, lastFlush, batches, fl, outgoing, conns, crashed, hist>>

NextRestart ==
  \/ \E to \in RcptLists : StoreAddNow(to)
  \/ \E id \in hist.added : StoreRemoveId(id)
  \/ Tick
  \/ \E pid \in Pids : Restart(pid)

SpecRestart == InitRestart /\ [][NextRestart]_vars

\* a MultiUpstream on its own, over every list of upstreams
InitUpstream ==
  /\ auth = AuthNil
  /\ security = UNENCRYPTED
  /\ storeKind = "memory"
  /\ observe = FALSE
  /\ InitCommon

NextUpstream ==
  \/ \E ups \in UpstreamLists : MultiSend(ups)
  \/ MultiNext
  \/ MultiReturn

SpecUpstream == InitUpstream /\ [][NextUpstream]_vars

\* Summarize on its own, over every list of stored messages
InitSummary ==
  /\ auth = AuthNil
  /\ security = UNENCRYPTED
  /\ storeKind = "memory"
  /\ observe = FALSE
  /\ InitCommon

NextSummary ==
  \/ summ.pc = "idle" /\ \E stored \in StoredLists : SummarizeCall("a", stored)
  \/ SummaryTaken

SpecSummary == InitSummary /\ [][NextSummary]_vars

\* a RateCounter on its own, of every limit and window
InitRate ==
  /\ auth = AuthNil
  /\ security = UNENCRYPTED
  /\ storeKind = "memory"
  /\ observe = FALSE
  /\ InitCommon

NextRate ==
  \/ \E limit \in Limits, intervals \in 1..MaxWindow : RateNew(limit, intervals)
  \/ \E n \in Amounts : RateAdd(n)
  \/ RateCheckAndAdvance

SpecRate == InitRate /\ [][NextRate]_vars

\* a DiskStore on its own: the writer's Adds, the summarizer's polls and
\* Removes, file-system step by file-system step, and crashes
InitDisk ==
  /\ auth = AuthNil
  /\ security = UNENCRYPTED
  /\ storeKind = "disk"
  /\ observe = FALSE
  /\ InitCommon

NextDisk ==
  \/ \E ok \in BOOLEAN : DiskAddTmp(ok)
  \/ \E ok \in BOOLEAN : DiskAddRename(ok)
  \/ \E ok \in BOOLEAN : DiskAddMetaCreate(ok)
  \/ \E ok \in BOOLEAN : DiskAddMetaWrite(ok)
  \/ \E ok \in BOOLEAN : DiskAddChtimes(ok)
  \/ \E name \in disk.known : DiskRemoveFirst(name)
  \/ DiskRemoveSecond
  \/ \E t \in 0..MaxTime : DiskPollList(t)
  \/ DiskPollNext
  \/ \E sameNames \in BOOLEAN : DiskCrash(sameNames)
  \/ Tick

SpecDisk == InitDisk /\ [][NextDisk]_vars

\* the times a store is asked for newer messages
QueryTimes == {ZeroTime} \cup (0..MaxTime)

\* a MemoryStore shared by the writer and the summarizer
InitMem ==
  /\ auth = AuthNil
  /\ security = UNENCRYPTED
  /\ storeKind = "memory"
  /\ observe = FALSE
  /\ InitCommon

NextMem ==
  \/ \E to \in RcptLists : MemAddPush(to)
  \/ MemAddUp
  \/ \E t \in QueryTimes : MemPollSearch(t)
  \/ MemPollCopy
  \/ \E id \in mem.known : MemRemoveFind(id)
  \/ MemRemoveAt
  \/ Tick

SpecMem == InitMem /\ [][NextMem]_vars

\* ------------------------------------------------------------------ the claims
\* the messages that left the store after a successful Add
Removed == hist.added \ StoreIds

C2_ReplyAfterAdd ==
  [][\A i \in Sessions :
       /\ sess[i].pc = "store" =>
            /\ out' = out
            /\ sess'[i].pc \in {"store", "reply"}
            /\ sess'[i].pc = "reply" =>
                 /\ writer.busy /\ writer.sess = i /\ ~writer'.busy
                 /\ counter' = counter + 1
       /\ sess[i].pc = "reply" /\ sess'[i].pc # "reply" =>
            /\ out'.cmd = "STORED" /\ out'.sess = i
            /\ out'.code \in {250, 451}
            /\ out'.code = 250 => sess[i].id \in hist.added /\ sess[i].id \in StoreIds
            /\ sess[i].id \notin hist.added => out'.code = 451]_vars

\* the handler has written 451 for a message whose Add failed
C2_Witness ==
  /\ out.cmd = "STORED" /\ out.code = 451 /\ out.ret = 250
  /\ hist.added = {} /\ counter = 1

\* the receive times of the messages of a batch
ReceiveTimes(msgs) == {msgs[i].Received : i \in 1..Len(msgs)}

\* C3: a batch that a non-forced flush at time T has put on the outgoing
\* channel has T - (its earliest receive time) >= HardLimit or
\* T - (its latest receive time) >= SoftLimit
C3_NoEarlyEmit ==
  (fl.pc = "await" /\ ~fl.force) =>
    LET R == ReceiveTimes(batches[fl.key].messages) IN
      \/ fl.now - SetMin(R) >= HardLimit
      \/ fl.now - SetMax(R) >= SoftLimit

\* the batches a stored message belongs to, and the stored messages of a batch
KeysOf(m) == {RecipientKey(Batch(m), NormalizeAddress(m.To[n])) : n \in 1..Len(m.To)}

StoredBatch(q, key) == {m \in Range(q) : key \in KeysOf(m)}

StoredKeys(q) == UNION {KeysOf(m) : m \in Range(q)}

\* the batch of the stored messages q under key is due at time T
DueAt(q, key, T) ==
  LET R == {m.Received : m \in StoredBatch(q, key)} IN
    T - SetMin(R) >= HardLimit \/ T - SetMax(R) >= SoftLimit

\* a flush at time T over the stored messages q has emitted, for every batch
\* that is due (every batch when forced), a summary with all its messages
FlushComplete(q, T, force, emitted) ==
  \A key \in StoredKeys(q) :
    (force \/ DueAt(q, key, T)) =>
      \E e \in emitted : e.key = key /\ {m.Id : m \in StoredBatch(q, key)} \subseteq e.ids

\* C4: when a flush ends, every batch of the messages that were stored when
\* it polled and that is due at its time, and every such batch when it is
\* forced, has been emitted in a summary that contains all those messages
C4_DueBatchesEmitted ==
  [][/\ (fl.pc = "await" /\ fl'.pc # "await") =>
          FlushComplete(fl.snap, fl.now, fl.force, fl.emitted)
     /\ (fl.pc = "idle" /\ fl'.pc # "await"
           /\ <<fl', lastFlush', batches'>> # <<fl, lastFlush, batches>>) =>
          FlushComplete(messages, clock, fl'.pc = "returned", {})]_vars

\* the keys whose summary the sender has refused in the flush that is ending
FailedKeys == fl.failed \cup (IF fl.reply = "error" THEN {fl.key} ELSE {})

\* C5: when a flush ends, every message of a summary the sender reported an
\* error for is still in the store, and the entry of its batch still holds it
C5_FailedBatchRetained ==
  [][(fl.pc = "await" /\ fl'.pc # "await") =>
       \A e \in fl.emitted :
         e.key \in FailedKeys =>
           /\ e.ids \subseteq {messages'[i].Id : i \in 1..Len(messages')}
           /\ e.key \in DOMAIN batches'
           /\ e.ids \subseteq IdsOf(batches'[e.key].messages)]_vars

\* C6: under an auth policy a session that has not authenticated has MAIL,
\* RCPT, DATA and VRFY answered 530 with its envelope unchanged and no body
\* read; QUIT, HELO, EHLO, RSET, NOOP, AUTH and STARTTLS are never answered
\* 530; and every request on the storage channel or with the writer comes
\* from an authenticated session
C6_AuthGate ==
  [][\A i \in Sessions :
       /\ sess[i].pc = "cmd" =>
            /\ (auth # AuthNil /\ sess[i].s.authState # AUTHENTICATED
                  /\ out'.cmd \in {"MAIL", "RCPT", "DATA", "VRFY"}) =>
                 /\ out'.code = 530
                 /\ sess'[i].s = sess[i].s
                 /\ sess'[i].pc = "cmd"
            /\ out'.cmd \in NoAuthCommands => out'.code # 530
       /\ auth # AuthNil =>
            /\ \A k \in 1..Len(received') :
                 sess'[received'[k].sess].s.authState = AUTHENTICATED
            /\ writer'.busy => sess'[writer'.sess].s.authState = AUTHENTICATED]_vars

\* an unauthenticated session under an auth policy has been refused a MAIL
C6_Witness ==
  /\ auth # AuthNil
  /\ sess[SessionSlot].pc = "cmd" /\ sess[SessionSlot].s.authState = REQUIRED
  /\ out.cmd = "MAIL" /\ out.code = 530

\* C7: under a policy that requires encryption, a session that is not
\* encrypted has every AUTH answered 502 with nothing changed, is never asked
\* for credentials and never becomes authenticated
C7_NoAuthUnencrypted ==
  [][\A i \in Sessions :
       (auth = AuthRequireEncrypted /\ ~IsEncrypted(sess'[i].s.security)
         /\ sess'[i].pc # "closed") =>
         /\ (sess[i].pc = "cmd" /\ out'.cmd = "AUTH") =>
              /\ out'.code = 502
              /\ sess'[i].s = sess[i].s
              /\ sess'[i].pc = "cmd"
         /\ sess'[i].pc # "auth"
         /\ sess'[i].s.authState # AUTHENTICATED]_vars

\* an unencrypted session under such a policy has been refused an AUTH
C7_Witness ==
  /\ auth = AuthRequireEncrypted
  /\ ~IsEncrypted(sess[SessionSlot].s.security)
  /\ sess[SessionSlot].pc = "cmd" /\ sess[SessionSlot].s.authState = REQUIRED
  /\ out.cmd = "AUTH" /\ out.code = 502

\* C8: in a session that needs no authentication and has had no body accepted,
\* MAIL is answered 250 and sets the sender to its path when the envelope has
\* no sender and no recipient, and 503 otherwise; RCPT is answered 250 and
\* appends its path to the recipients when a sender is set, and 503
\* otherwise; a 503 leaves the envelope unchanged
C8_Envelope ==
  [][\A i \in Sessions :
       (sess[i].pc = "cmd" /\ ~sess[i].s.Received.nil /\ sess[i].s.authState # REQUIRED) =>
         LET e == sess[i].s.Received
             e2 == sess'[i].s.Received
         IN /\ out'.cmd = "MAIL" =>
                 IF e.From = "" /\ e.To = <<>>
                 THEN out'.code = 250 /\ e2 = [e EXCEPT !.From = out'.arg]
                 ELSE out'.code = 503
            /\ out'.cmd = "RCPT" =>
                 IF e.From # ""
                 THEN out'.code = 250 /\ e2 = [e EXCEPT !.To = Append(e.To, out'.arg)]
                 ELSE out'.code = 503
            /\ (out'.cmd \in {"MAIL", "RCPT"} /\ out'.code = 503) => e2 = e]_vars

\* a second RCPT has been accepted and a later MAIL refused
C8_Witness ==
  /\ sess[SessionSlot].pc = "cmd"
  /\ sess[SessionSlot].s.Received.From = "a"
  /\ sess[SessionSlot].s.Received.To = <<"B", "a">>
  /\ out.cmd = "MAIL" /\ out.code = 503

C10_AfterData ==
  [][\A i \in Sessions :
       (sess[i].pc = "cmd" /\ sess[i].id \in hist.acked) =>
         /\ out'.cmd \in {"MAIL", "RCPT", "DATA"} => out'.code = 503
         /\ out'.cmd = "QUIT" => out'.code = 221]_vars

\* the envelope of a session is complete: a body read now reaches the parser
EnvelopeComplete(s) ==
  ~s.Received.nil /\ s.Received.From # "" /\ s.Received.To # <<>>

\* a handler has just read a body that did not parse
AfterBadBody(i) ==
  sess[i].pc = "cmd" /\ out.sess = i /\ out.cmd = "BODY" /\ out.arg = "bad" /\ out.ret = 451

\* C11 as stated: a body that does not parse is answered 451 by the Session,
\* yields no message and leaves the session with an empty envelope, so that
\* the next RCPT is answered 503 and the next MAIL 250
C11_BadDataDiscardsEnvelope ==
  [][\A i \in Sessions :
       /\ (sess[i].pc = "data" /\ EnvelopeComplete(sess[i].s) /\ out'.arg = "bad") =>
            /\ out'.ret = 451
            /\ received' = received
            /\ sess'[i].s.Received = FreshReceived
       /\ AfterBadBody(i) =>
            /\ out'.cmd = "RCPT" => out'.code = 503
            /\ out'.cmd = "MAIL" => out'.code = 250]_vars

\* C11 amended: a body that does not parse is answered 451 by the Session and
\* yields no message, and the envelope keeps its sender and recipients, so
\* that the next RCPT is answered 250 and the next MAIL 503
C11_BadDataKeepsEnvelope ==
  [][\A i \in Sessions :
       /\ (sess[i].pc = "data" /\ EnvelopeComplete(sess[i].s) /\ out'.arg = "bad") =>
            /\ out'.ret = 451
            /\ received' = received
            /\ sess'[i].s = sess[i].s
            /\ sess'[i].pc = "cmd"
       /\ (AfterBadBody(i) /\ EnvelopeComplete(sess[i].s)) =>
            /\ out'.cmd = "RCPT" => out'.code = 250
            /\ out'.cmd = "MAIL" => out'.code = 503]_vars

\* a body that did not parse has been read on a complete envelope
C11_Witness ==
  /\ AfterBadBody(SessionSlot)
  /\ sess[SessionSlot].s.Received.From = "a"
  /\ sess[SessionSlot].s.Received.To = <<"a", "B">>

\* C12: in a session that has had no body accepted, the handler writes the
\* Session's reply to every command line (500 for a line that does not parse)
\* and goes on; for a body that yields no message it writes the 451 or 503
\* before it reads the next command, and for a body that yields a message it
\* writes nothing until the writer has answered
C12_OneReplyEach ==
  [][\A i \in Sessions :
       /\ (sess[i].pc = "cmd" /\ ~sess[i].s.Received.nil
             /\ out'.cmd \in Commands \cup {"BADLINE"}) =>
            /\ out'.code # 0 /\ out'.code = out'.ret
            /\ out'.cmd = "BADLINE" => out'.code = 500 /\ sess'[i].pc = "cmd"
            /\ ~crashed'
       /\ (sess[i].pc = "data" /\ ~sess[i].s.Received.nil) =>
            IF sess'[i].pc = "store"
            THEN out'.code = 0 /\ out'.ret = 250
            ELSE sess'[i].pc = "cmd" /\ out'.code \in {451, 503} /\ out'.code = out'.ret]_vars

\* the reply to credentials: 501 when they do not decode or the validator
\* returns an error, 535 when it rejects them, 235 when it accepts them
CredentialsCode(payload) ==
  IF payload \in {"undecodable", "malformed", ""} THEN 501
  ELSE IF payload = "good" THEN 235
  ELSE 535

\* C13: in a session that may authenticate and has not yet, AUTH is answered
\* 504 for a type other than PLAIN, 334 for PLAIN without payload, after
\* which the next line is read as the payload, and otherwise, like that line,
\* 501, 535 or 235 by its credentials; a session becomes authenticated in
\* the step that writes 235 and in no other
C13_AuthReplies ==
  [][\A i \in Sessions :
       /\ (sess[i].pc = "cmd" /\ sess[i].s.authState = REQUIRED
             /\ IsPermitted(auth, sess[i].s.security) /\ out'.cmd = "AUTH") =>
            /\ out'.code = IF out'.type # "PLAIN" THEN 504
                            ELSE IF out'.arg = "" THEN 334
                            ELSE CredentialsCode(out'.arg)
            /\ sess'[i].pc = IF out'.code = 334 THEN "auth" ELSE "cmd"
       /\ (sess[i].pc = "auth" /\ out'.arg # "readerr") =>
            /\ out'.cmd = "AUTHRESP"
            /\ out'.code = CredentialsCode(out'.arg)
            /\ sess'[i].pc = "cmd"
       /\ (sess[i].pc \in {"cmd", "auth"} /\ sess'[i].pc # "closed") =>
            ((sess[i].s.authState # AUTHENTICATED /\ sess'[i].s.authState = AUTHENTICATED)
               <=> (out'.code = 235 /\ out'.cmd \in {"AUTH", "AUTHRESP"}))]_vars

\* a session has authenticated with the line it sent after 334
C13_Witness ==
  /\ sess[SessionSlot].pc = "cmd" /\ sess[SessionSlot].s.authState = AUTHENTICATED
  /\ out.cmd = "AUTHRESP" /\ out.arg = "good" /\ out.code = 235

\* C14: STARTTLS is answered 220 only in a session that may start TLS and is
\* not encrypted, and with 500 once the handler has upgraded the connection
C14_StarttlsOnce ==
  [][\A i \in Sessions :
       (sess[i].pc = "cmd" /\ out'.sess = i /\ out'.cmd = "STARTTLS") =>
         /\ out'.code = 220 =>
              (AllowStarttls(sess[i].s.security) /\ ~IsEncrypted(sess[i].s.security))
         /\ sess[i].tls => out'.code = 500]_vars

AllReturned ==
  /\ life.lpc = "returned" /\ life.wpc = "done" /\ life.bpc = "done" /\ life.spc = "done"
  /\ life.mpc \in {"reload", "exec", "exit"}

\* C16: once a termination request of either kind has been fanned out, the
\* listener, the writer, the summarizer and the sender all return and main's
\* wait ends, and after a reload request the new instance is started (unless
\* a panic has ended the process before)
C16_AllReturn ==
  /\ (life.sig # NoRequest) ~> (AllReturned \/ crashed)
  /\ (life.sig = Reload) ~> (life.mpc = "exec" \/ crashed)

\* C17: while the timer of shutdown_timeout has not fired, the payload of a
\* session is accepted on the received channel, which is still open; the
\* writer does not return while a request waits for it; the message the
\* writer answers with nil is in the store; and the answer is written to the
\* client as 250, before the channel is closed and the writer returns when
\* the timer has not fired by then
C17_InFlightStored ==
  /\ [](\A i \in Sessions : sess[i].pc = "store" => life.wpc = "run")
  /\ [][\A i \in Sessions :
          /\ (sess[i].pc = "data" /\ out'.sess = i /\ out'.cmd = "BODY" /\ out'.ret = 250
                /\ ~life.timedOut) =>
               (~life.rclosed /\ ~crashed' /\ sess'[i].pc = "store")
          /\ (sess[i].pc = "store" /\ sess'[i].pc = "reply" /\ sess'[i].err = "nil") =>
               sess'[i].id \in hist'.added
          /\ (sess[i].pc = "reply" /\ sess[i].err = "nil" /\ sess'[i].pc # "reply") =>
               /\ out'.cmd = "STORED" /\ out'.code = 250
               /\ sess[i].id \in hist'.acked
               /\ ~life.timedOut => (~life.rclosed /\ life.wpc = "run")]_vars

\* after the termination request and the end of the accept loop, a session
\* that was inside a message at the signal has had its message stored and acknowledged, and the
\* received channel is not closed yet
C17_Witness ==
  /\ life.sig # NoRequest /\ life.lpc = "waitsessions" /\ ~life.rclosed
  /\ \E i \in life.midway :
        /\ sess[i].pc = "cmd" /\ sess[i].id \in hist.added \cap hist.acked
        /\ out.sess = i /\ out.cmd = "STORED" /\ out.code = 250

C19_OneReplyPerSend ==
  [][(outgoing # <<>> /\ outgoing' = Tail(outgoing)) =>
       /\ sent'.sends = 1
       /\ sent'.replies = <<IF sent'.ok THEN "nil" ELSE "error">>
       /\ fl'.reply = sent'.replies[1]
       /\ sent'.saved = "none" <=> sent'.ok]_vars

\* a send failed, the write to the failed-maildir failed as well, and the
\* reply is the error of the send
C19_Witness ==
  /\ ~sent.ok /\ sent.sends = 1 /\ sent.saved = "error" /\ sent.replies = <<"error">>
  /\ fl.reply = "error"

\* the times a caller can ask for: the zero time and the times of the clock

\* C20: for every time t, MessagesNewerThan(t) yields the stored messages
\* whose receive time is after t, all of them and no others
C20_NewerThanExact ==
  \A t \in QueryTimes :
    {m.Id : m \in Range(MessagesNewerThan(storeKind, messages, t))}
      = {m.Id : m \in {x \in Range(messages) : x.Received > t}}

\* C21: in the disk store, over restarts, a message Add has returned
\* success for and that has not been removed is among
\* MessagesNewerThan(t) for every t before its receive time
C21_AddedSurvivesRestart ==
  \A m \in hist.live : \A t \in QueryTimes :
    t < m.Received => m \in Range(MessagesNewerThan(storeKind, messages, t))

\* the ids Add has returned that are not in the store any more
RemovedIds == hist.added \ StoreIds

\* C22: Remove of an id that has been removed leaves the store as it is,
\* in the memory store and in the disk store
C22_RemoveAgainNoEffect ==
  \A id \in RemovedIds : StoreRemove(storeKind, messages, id) = messages

\* a memory store that holds two messages after a third has been removed
C22_Witness ==
  storeKind = "memory" /\ RemovedIds # {} /\ Len(messages) = 2

\* the positions of the upstreams that return an error
Failing(ups) == {i \in 1..Len(ups) : ups[i] # "nil"}

\* C23: when Send of a MultiUpstream returns, the upstreams have been
\* called in list order up to the first that returned an error and none
\* after it, that error is the result, and the result is nil only when
\* every upstream was called and returned nil; while it runs, the calls are
\* an initial part of the list, in order
C23_FailFast ==
  /\ multi.calls = [k \in 1..Len(multi.calls) |-> k]
  /\ multi.pc = "returned" =>
       IF Failing(multi.ups) = {}
       THEN /\ multi.ret = "nil"
            /\ Len(multi.calls) = Len(multi.ups)
       ELSE /\ multi.ret = multi.ups[SetMin(Failing(multi.ups))]
            /\ Len(multi.calls) = SetMin(Failing(multi.ups))

\* Send has returned the error of the second of three upstreams, and the
\* third has not been called
C23_Witness ==
  /\ multi.pc = "returned" /\ Len(multi.ups) = 3
  /\ multi.ups[1] = "nil" /\ multi.ups[2] = "errA" /\ multi.ret = "errA"
  /\ multi.calls = <<1, 2>>

RECURSIVE SumCounts(_, _)
SumCounts(uniques, i) ==
  IF i > Len(uniques) THEN 0 ELSE uniques[i].Count + SumCounts(uniques, i + 1)

\* C24: in every summary built from a list of stored messages, the counts
\* of the unique messages add up to the number of stored messages, and every
\* unique message has a count of at least 1
C24_CountsAddUp ==
  summ.pc = "built" =>
    /\ SumCounts(summ.summary.UniqueMessages, 1) = Len(summ.summary.StoredMessages)
    /\ \A i \in 1..Len(summ.summary.UniqueMessages) :
         summ.summary.UniqueMessages[i].Count >= 1

\* a summary of three messages in two groups, one of them with two messages
C24_Witness ==
  /\ summ.pc = "built"
  /\ Len(summ.summary.StoredMessages) = 3
  /\ Len(summ.summary.UniqueMessages) = 2
  /\ summ.summary.UniqueMessages[1].Count = 2

\* the subject the claim describes, for n messages in m groups
SubjectOf(n, m, subject) ==
  LET instances == ToString(n) \o (IF n = 1 THEN " instance" ELSE " instances")
      groups == ToString(m) \o (IF m = 1 THEN " message" ELSE " messages")
  IN IF m = 1 THEN "[failmail] " \o instances \o ": " \o subject
     ELSE "[failmail] " \o instances \o " of " \o groups

\* C25: the subject of a summary is "[failmail] N instances: <subject of
\* the group>" when its messages fall into exactly one group and "[failmail]
\* N instances of M messages" otherwise, N the number of messages and M the
\* number of groups, with "1 instance" and "1 message" exactly for a count
\* of 1; the subject of the group is that of its last message
C25_Subject ==
  summ.pc = "built" =>
    LET stored == summ.summary.StoredMessages
        groups == {stored[i].key : i \in 1..Len(stored)}
    IN summ.summary.Subject =
         SubjectOf(Len(stored), Cardinality(groups),
                   IF stored = <<>> THEN "" ELSE stored[Len(stored)].subject)

\* a summary of one message, and so of one group, has the singular
C25_Witness ==
  /\ summ.pc = "built"
  /\ Len(summ.summary.StoredMessages) = 1
  /\ summ.summary.Subject = "[failmail] 1 instance: s2"

RECURSIVE SumSeq(_, _)
SumSeq(q, i) == IF i > Len(q) THEN 0 ELSE q[i] + SumSeq(q, i + 1)

\* the amounts added in the intervals from..to of the closed ones
RECURSIVE SumPast(_, _, _)
SumPast(past, from, to) ==
  IF from > to THEN 0 ELSE SumSeq(past[from], 1) + SumPast(past, from + 1, to)

\* the first of the closed intervals that the last CheckAndAdvance counted:
\* the one that began at the W-th most recent CheckAndAdvance before it, or
\* the first interval when there were fewer
WindowStart(r) == IF Len(r.past) > Len(r.counts) THEN Len(r.past) - Len(r.counts) + 1 ELSE 1

\* C26: the total CheckAndAdvance returns is the sum of the amounts added
\* since the W-th most recent CheckAndAdvance before it (the interval it
\* closes and the W-1 before), and the flag is total >= Limit for a Limit
\* above 0 and false for a Limit of 0
C26_WindowTotal ==
  rate.past # <<>> =>
    /\ rate.ret.total = SumPast(rate.past, WindowStart(rate), Len(rate.past))
    /\ rate.ret.exceeded = (IF rate.Limit > 0 THEN rate.ret.total >= rate.Limit ELSE FALSE)

\* a counter of two intervals has been checked three times, and the last
\* total leaves out what was added before the first check
C26_Witness ==
  /\ Len(rate.counts) = 2 /\ Len(rate.past) = 3
  /\ rate.past[1] # <<>> /\ rate.past[2] # <<>> /\ rate.past[3] # <<>>
  /\ rate.ret.total < SumPast(rate.past, 1, 3)
  /\ rate.ret.exceeded

\* the interval the last CheckAndAdvance closed was k >= 1 Adds of one n
SameAdds(r) ==
  /\ r.past # <<>>
  /\ r.past[Len(r.past)] # <<>>
  /\ \A i \in 1..Len(r.past[Len(r.past)]) : r.past[Len(r.past)][i] = r.past[Len(r.past)][1]

\* C27: after k consecutive Add(n) with no CheckAndAdvance between them,
\* the next CheckAndAdvance returns the total k*n and the flag k*n >= Limit
C27_ConsecutiveAdds ==
  SameAdds(rate) =>
    LET last == rate.past[Len(rate.past)] IN
    /\ rate.ret.total = Len(last) * last[1]
    /\ rate.ret.exceeded = (Len(last) * last[1] >= rate.Limit)

\* C27, amended: after k consecutive Add(n) with no CheckAndAdvance between
\* them, on a counter with a Limit above 0 to which nothing was added in the
\* W-1 intervals before, the next CheckAndAdvance returns the total k*n and
\* the flag k*n >= Limit
C27_ConsecutiveAddsAlone ==
  (/\ SameAdds(rate)
   /\ rate.Limit > 0
   /\ SumPast(rate.past, WindowStart(rate), Len(rate.past) - 1) = 0) =>
    LET last == rate.past[Len(rate.past)] IN
    /\ rate.ret.total = Len(last) * last[1]
    /\ rate.ret.exceeded = (Len(last) * last[1] >= rate.Limit)

\* two Add(2) after an interval without Adds, on a counter of two intervals
\* and Limit 3: the total is 4 and the limit is exceeded
C27_Witness ==
  /\ Len(rate.counts) = 2 /\ rate.Limit = 3
  /\ Len(rate.past) = 2 /\ rate.past[1] = <<>> /\ rate.past[2] = <<2, 2>>
  /\ rate.ret = [exceeded |-> TRUE, total |-> 4]

\* the ids MessagesNewerThan(t) yields on the memory store q
NewerIds(q, t) == {m.Id : m \in Range(MemoryMessagesNewerThan(q, t))}

\* C28: on the memory store, an Add followed by the Remove of the id it
\* returned leaves MessagesNewerThan(t) with the same messages as before
\* the Add, for every t
C28_AddRemoveRestores ==
  [][(\E to \in RcptLists : StoreAddThenRemove(to)) =>
       \A t \in QueryTimes : NewerIds(messages', t) = NewerIds(messages, t)]_vars

\* C29: Flush calls Store.Remove for a message only after the sender has
\* answered nil to a request whose summary contains the message, and Flush
\* is past its wait for an answer only when the answer has been given
C29_RemoveAfterReply ==
  /\ \A r \in hist.removes : r.id \in hist.replied
  /\ fl.toRemove \subseteq hist.replied
  /\ fl.pc = "await" => (outgoing # <<>> <=> fl.reply = "none")

\* a flush got nil for one summary and an error for another: the messages
\* of the first have been removed, those of the second only are in the store
C29_Witness ==
  /\ hist.removes # {}
  /\ StoreIds # {}
  /\ StoreIds \cap hist.replied = {}
  /\ fl.pc = "idle"

\* C30: over all flushes, Flush calls Store.Remove at most once for the id
\* of a stored message, in however many RecipientKey buckets the message is
C30_RemovedOnce == \A r \in hist.removes : r.n <= 1

\* C31: a message that a RecipientKey bucket of the summarizer still holds,
\* unsent or after a send that failed, is in the store: a nil answer for the
\* summary of one bucket does not remove what another bucket holds
C31_HeldMessagesStored ==
  \A key \in DOMAIN batches :
    \A id \in IdsOf(batches[key].messages) : id \in hist.added => id \in StoreIds

\* C32: every message added to the store is folded into the batches once:
\* no poll returns a message that an earlier poll has returned, and a stored
\* message that the polls no longer ask for (its receive time is not after
\* lastFlush) has been folded
C32_FoldedOnce ==
  /\ \A r \in hist.folds : r.n <= 1
  /\ \A i \in 1..Len(messages) :
       (messages[i].Id \in hist.added /\ messages[i].Received <= lastFlush) =>
         RemoveCalls(hist.folds, messages[i].Id) >= 1

\* the receive times of the messages of a bucket
BucketTimes(bucket) == {bucket.messages[i].Received : i \in 1..Len(bucket.messages)}

\* C33: the polled messages are folded in nondecreasing order of their
\* receive times, so that in every bucket the messages are in that order,
\* first is the least and last the greatest of their receive times
C33_FoldedInTimeOrder ==
  \A key \in DOMAIN batches :
    LET bucket == batches[key] IN
    /\ \A i, j \in 1..Len(bucket.messages) :
         i < j => bucket.messages[i].Received <= bucket.messages[j].Received
    /\ bucket.first = SetMin(BucketTimes(bucket))
    /\ bucket.last = SetMax(BucketTimes(bucket))

\* C34: at every point of the Adds and Removes of a disk store, crashes
\* between two file-system steps included, every file of .meta has a file of
\* the same name in cur
C34_MetaHasContents == MetaNames(disk.meta) \subseteq disk.cur

\* C36: the operations on the memory store are serialized: the writer is
\* never inside Add while the summarizer is inside MessagesNewerThan or
\* Remove
C36_Serialized == ~(mem.add.pc # "idle" /\ mem.op.pc # "idle")

\* C35: in a run of the process, every message a MessagesNewerThan on the
\* disk store returns while Adds go on is completely stored: it is
\* returned with its final receive time, the time its Add was called with
C35_NoHalfStored ==
  disk.crashes = 0 =>
    \A k \in 1..Len(disk.poll.result) :
      LET r == disk.poll.result[k] IN
      \E f \in disk.final : f.name = r.name /\ f.now = r.Received


\* the summarizer has taken a termination request from its done channel
SummarizerTerminated == life.sig # NoRequest /\ life.bdone = NoRequest

\* the parts of C37 that do not depend on which request was given: a forced
\* flush is the one of the cleanup, the send channel is closed only after
\* that flush has returned with every summary answered, nothing is sent after
\* the close, and the sender returns only after the close, with nothing left
\* to answer
C37_CloseAfterFlush ==
  /\ fl.force => life.bpc = "cleanup"
  /\ life.oclosed => life.bpc = "done" /\ fl.pc = "returned" /\ outgoing = <<>>
  /\ life.spc = "done" => life.oclosed /\ outgoing = <<>>

\* C37: on termination the summarizer performs exactly one forced flush,
\* receives the sender's reply for every summary of that flush, and only then
\* closes the send channel; it never sends after the close, and the sender
\* returns after the close having replied to every request it received
C37_FinalFlush ==
  /\ SummarizerTerminated => life.bpc \in {"cleanup", "done"}
  /\ C37_CloseAfterFlush

\* a handler has read a whole message and sent its StorageRequest on the
\* received channel after Listen had closed it: the send panics
SentAfterClose == crashed /\ life.rclosed /\ out.cmd = "BODY" /\ out.ret # 0

\* C38: no session sends a storage request on the received channel after the
\* listener has closed it, also when shutdown_timeout expires while sessions
\* are open and one of them completes a DATA payload later
C38_NoSendAfterClose == ~SentAfterClose

\* C40: after a STARTTLS answered 220 and the TLS upgrade of the connection
\* the session counts as encrypted: an AUTH in a session that awaits
\* authentication is not answered 502, and valid PLAIN credentials are
\* answered 235, also under a policy that requires encryption
C40_AuthAfterStarttls ==
  [][\A i \in Sessions :
       (/\ sess[i].pc = "cmd" /\ sess[i].tls
        /\ sess[i].s.authState = REQUIRED
        /\ out'.sess = i /\ out'.cmd = "AUTH") =>
         /\ out'.code # 502
         /\ (out'.type = "PLAIN" /\ out'.arg = "good") => out'.code = 235]_vars

\* C39: the final forced flush of a graceful shutdown covers every message
\* acknowledged with 250, also those acknowledged while the open sessions
\* drain: when all tasks have returned, no acknowledged message is in the
\* store without having been in a summary handed to the sender
C39_AllSummarized ==
  (AllReturned /\ life.sig = GracefulShutdown) =>
     \A id \in hist.acked \cap StoreIds : id \in hist.handed

====
